---------------------------- MODULE Spec2Model ----------------------------
(***************************************************************************)
(* A model of the VOC person-data explorer (Search.py and                  *)
(* pages/Person_Details.py): the enrichment index, label resolution, the   *)
(* observation timeline of a person cluster, and the relations tab.        *)
(*                                                                         *)
(* Python values are modelled as follows.                                  *)
(*   - a str is a sequence of one-character strings, so that lower(),      *)
(*     upper(), `in` and the lexicographic order are computed;             *)
(*   - None, NaN (pandas' missing cell) and a raised exception are         *)
(*     one-element sequences holding a token no str can hold;              *)
(*   - a dict of a JSON record is a TLA+ record whose DOMAIN is the set of *)
(*     keys that are present, so that .get(key, default) is computed;      *)
(*   - a dict built by the program is a sequence of [k, v] entries in      *)
(*     insertion order, which is the order Python iterates it in.          *)
(***************************************************************************)
EXTENDS Naturals, Sequences, FiniteSets, TLC

VARIABLES
    pc,            \* position of the script run that is being modelled
    person,        \* st.session_state['selected_person_data']
    observations,  \* Person_Details.py: observations (dict, insertion order)
    obs_list,      \* Person_Details.py: obs_list
    loc_df,        \* rows of location_uris_enriched.csv (<<>>: no row, or no file)
    pp_df,         \* rows of poolparty_uris_enriched.csv
    zot_df,        \* rows of zotero_uris.csv
    df_columns,    \* the columns of the three data frames
    enrichment,    \* the dict load_enrichment_data returns
    sidebar,       \* the Zotero count the sidebar shows
    all_data,      \* st.session_state['all_data'] (dict, insertion order)
    relation_data, \* Person_Details.py: relation_data
    data,          \* Search.py: data, the dataset load_data returns
    session,       \* st.session_state: a record of the keys that are set
    ret            \* the last call of a resolver: its arguments and outcome

vars == <<pc, person, observations, obs_list, loc_df, pp_df, zot_df, df_columns,
          enrichment, sidebar, all_data, relation_data, ret, data, session>>

---------------------------------------------------------------------------
(* Python values *)

None == <<"None">>
NaN == <<"NaN">>
TypeError == <<"TypeError">>
AttributeError == <<"AttributeError">>

IsStr(v) == \A i \in 1..Len(v) : v[i] \notin {"None", "NaN", "TypeError", "AttributeError"}

\* The float 0.0 (a number is one token, as NaN is).
Zero == <<"0.0">>

\* bool(v): None, '' and 0.0 are falsy; NaN (a float that is not 0) is truthy.
Truthy(v) == v # None /\ v # <<>> /\ v # Zero

\* pd.notna(v)
notna(v) == v # NaN /\ v # None

\* dict.get(key, default) of a JSON record
Get(rec, key, default) == IF key \in DOMAIN rec THEN rec[key] ELSE default

UpperLetters == <<"A","B","C","D","E","F","G","H","I","J","K","L","M",
                  "N","O","P","Q","R","S","T","U","V","W","X","Y","Z">>
LowerLetters == <<"a","b","c","d","e","f","g","h","i","j","k","l","m",
                  "n","o","p","q","r","s","t","u","v","w","x","y","z">>

\* The characters the model uses, in code-point order.
Ascii == <<" ", ",", "-", ".", "/", "0","1","2","3","4","5","6","7","8","9", ":">>
         \o UpperLetters \o LowerLetters

Ord(c) == CHOOSE i \in 1..Len(Ascii) : Ascii[i] = c

LowerChar(c) ==
    IF \E i \in 1..Len(UpperLetters) : UpperLetters[i] = c
    THEN LowerLetters[CHOOSE i \in 1..Len(UpperLetters) : UpperLetters[i] = c]
    ELSE c

UpperChar(c) ==
    IF \E i \in 1..Len(LowerLetters) : LowerLetters[i] = c
    THEN UpperLetters[CHOOSE i \in 1..Len(LowerLetters) : LowerLetters[i] = c]
    ELSE c

\* A str.lower that leaves the string as it is.
Lower_AsGiven(s) == s

\* str.lower() and str.upper()
Lower(s) == [i \in 1..Len(s) |-> LowerChar(s[i])]
Upper(s) == [i \in 1..Len(s) |-> UpperChar(s[i])]

\* a < b for two str: the lexicographic order on code points
RECURSIVE StrLess(_, _)
StrLess(a, b) ==
    IF b = <<>> THEN FALSE
    ELSE IF a = <<>> THEN TRUE
    ELSE IF a[1] # b[1] THEN Ord(a[1]) < Ord(b[1])
    ELSE StrLess(Tail(a), Tail(b))

StrLeq(a, b) == a = b \/ StrLess(a, b)

\* sub in s, for two str
Contains(s, sub) ==
    \E i \in 0..Len(s) :
        /\ i + Len(sub) <= Len(s)
        /\ \A j \in 1..Len(sub) : s[i + j] = sub[j]

\* sorted(S) for a set S of str
RECURSIVE SortedStrings(_)
SortedStrings(S) ==
    IF S = {} THEN <<>>
    ELSE LET m == CHOOSE x \in S : \A y \in S : StrLeq(x, y)
         IN <<m>> \o SortedStrings(S \ {m})

\* sep.join(strs)
RECURSIVE Join(_, _)
Join(sep, strs) ==
    IF strs = <<>> THEN <<>>
    ELSE IF Len(strs) = 1 THEN strs[1]
    ELSE strs[1] \o sep \o Join(sep, Tail(strs))

(* A dict the program builds: entries [k, v] in insertion order. *)
DictKeys(d) == {d[i].k : i \in 1..Len(d)}
DictHas(d, key) == \E i \in 1..Len(d) : d[i].k = key
DictGet(d, key) == d[CHOOSE i \in 1..Len(d) : d[i].k = key].v
\* d[key] = value: a new key goes last, an old key keeps its place
DictSet(d, key, value) ==
    IF DictHas(d, key)
    THEN [i \in 1..Len(d) |-> IF d[i].k = key THEN [k |-> key, v |-> value] ELSE d[i]]
    ELSE Append(d, [k |-> key, v |-> value])
DictValues(d) == [i \in 1..Len(d) |-> d[i].v]

\* The sequences over S of length at most n.
SeqUpTo(S, n) == UNION {[1..m -> S] : m \in 0..n}

---------------------------------------------------------------------------
(* String literals of the source *)

NA == <<"N","/","A">>
Unknown == <<"U","n","k","n","o","w","n">>
NoDate == <<"N","o"," ","d","a","t","e">>
NotFound == <<"N","o","t"," ","f","o","u","n","d">>
CommaSpace == <<",", " ">>


---------------------------------------------------------------------------
(* Person_Details.py, the timeline tab: aggregation (lines 118-222) *)

\* The dict literal of lines 125-135, built from the record that is the
\* first sighting of obs_id.
NewObservation(obs_id, rec) ==
    [observation_id |-> obs_id,
     dates |-> {},
     source |-> Get(rec, "observation_source", NA),
     reconstruction_source |-> Get(rec, "reconstruction_source", NA),
     activities |-> <<>>,
     appellations |-> <<>>,
     identities |-> <<>>,
     locations |-> <<>>,
     events |-> <<>>]

\* observations[obs_id]['dates'].add(rec.get(f)) for each f of dateFields
\* whose value is truthy.
AddDates(dates, rec, dateFields) ==
    dates \cup {Get(rec, f, None) : f \in {g \in dateFields : Truthy(Get(rec, g, None))}}

\* The body of one of the five loops, for one record.
AddRecord(obs, rec, listName, dateFields) ==
    LET obs_id == Get(rec, "observation_id", None) IN
    IF ~Truthy(obs_id) THEN obs
    ELSE LET created == IF DictHas(obs, obs_id) THEN obs
                        ELSE DictSet(obs, obs_id, NewObservation(obs_id, rec))
             old == DictGet(created, obs_id)
             new == [old EXCEPT ![listName] = Append(@, rec),
                                !.dates = AddDates(@, rec, dateFields)]
         IN DictSet(created, obs_id, new)

\* One of the five loops: for rec in person.get(category, []).
RECURSIVE ProcessCategory(_, _, _, _)
ProcessCategory(obs, recs, listName, dateFields) ==
    IF recs = <<>> THEN obs
    ELSE ProcessCategory(AddRecord(obs, recs[1], listName, dateFields),
                         Tail(recs), listName, dateFields)

\* Lines 118-222: the loops over activeAs, appellations, identities,
\* locationRelations and events, in this order. person['relations'] is not
\* read here.
AggregateObservations(p) ==
    LET o1 == ProcessCategory(<<>>, Get(p, "activeAs", <<>>), "activities",
                              {"annotationDate", "startDate"})
        o2 == ProcessCategory(o1, Get(p, "appellations", <<>>), "appellations",
                              {"annotationDate"})
        o3 == ProcessCategory(o2, Get(p, "identities", <<>>), "identities",
                              {"annotationDate"})
        o4 == ProcessCategory(o3, Get(p, "locationRelations", <<>>), "locations",
                              {"annotationDate"})
    IN ProcessCategory(o4, Get(p, "events", <<>>), "events",
                       {"annotationDate", "startDate"})

(* Person_Details.py, the timeline tab: sorting (lines 228-244) *)

\* Lines 231-240: the sort date and the display string of one observation.
\* Every member of dates is a truthy str, so str(d) is d.
WithSortDate(obs_data) ==
    LET dates == obs_data.dates
        date_strings == SortedStrings({d \in dates : Truthy(d)})
    IN IF dates # {}
       THEN [sort_date |-> IF date_strings # <<>> THEN date_strings[1] ELSE Unknown,
             display_dates |-> Join(CommaSpace, date_strings)] @@ obs_data
       ELSE [sort_date |-> Unknown, display_dates |-> NoDate] @@ obs_data

\* The comparison list.sort makes between two sort keys: x goes before y
\* only if key(x) < key(y).
KeyLess_Reversed(x, y) == StrLess(y.sort_date, x.sort_date)

KeyLess(x, y) == StrLess(x.sort_date, y.sort_date)

\* list.sort(key=...) is stable: x is placed after every element that is
\* not greater than it.
RECURSIVE InsertStable(_, _)
InsertStable(sorted, x) ==
    IF sorted = <<>> THEN <<x>>
    ELSE IF KeyLess(x, sorted[1]) THEN <<x>> \o sorted
    ELSE <<sorted[1]>> \o InsertStable(Tail(sorted), x)

RECURSIVE StableSort(_)
StableSort(list) ==
    IF list = <<>> THEN <<>>
    ELSE InsertStable(StableSort(SubSeq(list, 1, Len(list) - 1)), list[Len(list)])

\* Lines 118-222, the whole aggregation.
Aggregate ==
    /\ pc = "timeline"
    /\ observations' = AggregateObservations(person)
    /\ pc' = "aggregated"
    /\ UNCHANGED <<person, obs_list, loc_df, pp_df, zot_df, df_columns, enrichment, sidebar,
                   all_data, relation_data, ret, data, session>>

\* Line 224-225: no observation, nothing is sorted.
NoObservations ==
    /\ pc = "aggregated"
    /\ observations = <<>>
    /\ pc' = "no_observations"
    /\ UNCHANGED <<person, observations, obs_list, loc_df, pp_df, zot_df, df_columns,
                   enrichment, sidebar, all_data, relation_data, ret, data, session>>

\* A sequencing that writes the sort key into the cluster as well.
Sequence_KeyIntoCluster ==
    /\ pc = "aggregated"
    /\ observations # <<>>
    /\ LET keyed == [i \in 1..Len(observations) |->
                        [k |-> observations[i].k, v |-> WithSortDate(observations[i].v)]]
       IN /\ observations' = keyed
          /\ obs_list' = StableSort(DictValues(keyed))
          /\ person' = [sort_date |-> StableSort(DictValues(keyed))[1].sort_date] @@ person
    /\ pc' = "sorted"
    /\ UNCHANGED <<loc_df, pp_df, zot_df, df_columns, enrichment, sidebar,
                   all_data, relation_data, ret, data, session>>

\* Lines 228-244. obs_data is the dict held by observations, so the two new
\* keys show there too.
Sequence ==
    /\ pc = "aggregated"
    /\ observations # <<>>
    /\ LET keyed == [i \in 1..Len(observations) |->
                        [k |-> observations[i].k, v |-> WithSortDate(observations[i].v)]]
       IN /\ observations' = keyed
          /\ obs_list' = StableSort(DictValues(keyed))
    /\ pc' = "sorted"
    /\ UNCHANGED <<person, loc_df, pp_df, zot_df, df_columns, enrichment, sidebar,
                   all_data, relation_data, ret, data, session>>

---------------------------------------------------------------------------
(* Search.py: load_enrichment_data (lines 8-83) *)

\* Line 19. The key stands for the URI
\* https://github.com/globalise-huygens/nlp-event-detection/wiki#beingdead,
\* shortened to its fragment.
BeingDead == <<"b","e","i","n","g","d","e","a","d">>
Deceased == <<"D","e","c","e","a","s","e","d">>

\* Lines 11-19: the dict before any file is read.
EmptyEnrichment ==
    [locations |-> <<>>, poolparty |-> <<>>, zotero |-> <<>>,
     event_labels |-> <<[k |-> BeingDead, v |-> Deceased]>>]

\* A build that stores 0.0 for a coordinate that is NaN.
RECURSIVE BuildLocations_ZeroWhenMissing(_, _)
BuildLocations_ZeroWhenMissing(locations, rows) ==
    IF rows = <<>> THEN locations
    ELSE LET row == rows[1]
             entry == [label |-> row.label,
                       latitude |-> IF notna(row.latitude) THEN row.latitude ELSE Zero,
                       longitude |-> IF notna(row.longitude) THEN row.longitude ELSE Zero]
         IN BuildLocations_ZeroWhenMissing(IF notna(row.location_uri)
                           THEN DictSet(locations, Lower(row.location_uri), entry)
                           ELSE locations,
                           Tail(rows))

\* Lines 34-40, for the rows of location_uris_enriched.csv.
RECURSIVE BuildLocations(_, _)
BuildLocations(locations, rows) ==
    IF rows = <<>> THEN locations
    ELSE LET row == rows[1]
             entry == [label |-> row.label,
                       latitude |-> IF notna(row.latitude) THEN row.latitude ELSE None,
                       longitude |-> IF notna(row.longitude) THEN row.longitude ELSE None]
         IN BuildLocations(IF notna(row.location_uri)
                           THEN DictSet(locations, Lower(row.location_uri), entry)
                           ELSE locations,
                           Tail(rows))

\* Lines 55-61, for the rows of poolparty_uris_enriched.csv.
RECURSIVE BuildPoolparty(_, _)
BuildPoolparty(poolparty, rows) ==
    IF rows = <<>> THEN poolparty
    ELSE LET row == rows[1]
             entry == [type |-> row.type,
                       label |-> IF notna(row.dutch_prefLabel) THEN row.dutch_prefLabel ELSE None,
                       definition |-> IF notna(row.definition) THEN row.definition ELSE None]
         IN BuildPoolparty(IF notna(row.uri)
                           THEN DictSet(poolparty, row.uri, entry)
                           ELSE poolparty,
                           Tail(rows))

\* Lines 80-81: what one row stores under a key.
CitationOf_LowerWhenAbsent(row, key) ==
    IF notna(row.source_reference) THEN row.source_reference ELSE key

CitationOf(row, key) ==
    IF notna(row.source_reference) THEN row.source_reference ELSE row.zotero_uri

\* Lines 76-81, for the rows of zotero_uris.csv: the lowercased key is
\* stored first, the key as given second.
RECURSIVE BuildZotero(_, _)
BuildZotero(zotero, rows) ==
    IF rows = <<>> THEN zotero
    ELSE LET row == rows[1]
             uri_lower == Lower(row.zotero_uri)
         IN BuildZotero(IF notna(row.zotero_uri)
                        THEN DictSet(DictSet(zotero, uri_lower, CitationOf(row, uri_lower)),
                                     row.zotero_uri, CitationOf(row, row.zotero_uri))
                        ELSE zotero,
                        Tail(rows))

\* A build that adds its entries to the maps of the build before it.
load_enrichment_data_Appending(locRows, ppRows, zotRows) ==
    [locations |-> enrichment.locations \o BuildLocations(<<>>, locRows),
     poolparty |-> enrichment.poolparty \o BuildPoolparty(<<>>, ppRows),
     zotero |-> enrichment.zotero \o BuildZotero(<<>>, zotRows),
     event_labels |-> EmptyEnrichment.event_labels]

\* A file that does not exist is a table without rows: its loop is skipped.
load_enrichment_data(locRows, ppRows, zotRows) ==
    [locations |-> BuildLocations(EmptyEnrichment.locations, locRows),
     poolparty |-> BuildPoolparty(EmptyEnrichment.poolparty, ppRows),
     zotero |-> BuildZotero(EmptyEnrichment.zotero, zotRows),
     event_labels |-> EmptyEnrichment.event_labels]

\* The columns the three loops read, in the order a row's cells are read:
\* the URI cell first, the other cells only for a row whose URI is not NaN.
LocationColumns == <<"location_uri", "label", "latitude", "longitude">>
PoolpartyColumns == <<"uri", "type", "dutch_prefLabel", "definition">>
ZoteroColumns == <<"zotero_uri", "source_reference">>

Range(seq) == {seq[i] : i \in 1..Len(seq)}

\* The columns of the CSV files the repository's scripts write.
StandardColumns ==
    [loc |-> Range(LocationColumns), pp |-> Range(PoolpartyColumns),
     zot |-> Range(ZoteroColumns)]

\* row[column] for a column the data frame does not have.
KeyError(column) == <<"KeyError", column>>

\* The KeyError one row raises, None when it raises none: columns[1] is
\* read for every row, the others only when that cell is not NaN.
RowError(row, columns) ==
    IF columns[1] \notin DOMAIN row THEN KeyError(columns[1])
    ELSE IF ~notna(row[columns[1]]) THEN None
    ELSE LET missing == {i \in 2..Len(columns) : columns[i] \notin DOMAIN row}
         IN IF missing = {} THEN None
            ELSE KeyError(columns[CHOOSE i \in missing : \A j \in missing : i <= j])

\* The KeyError a loop over rows raises: that of its first raising row.
\* A loop over no row raises nothing.
RECURSIVE LoopError(_, _)
LoopError(rows, columns) ==
    IF rows = <<>> THEN None
    ELSE IF RowError(rows[1], columns) # None THEN RowError(rows[1], columns)
    ELSE LoopError(Tail(rows), columns)

\* Lines 34-40, 55-61, 76-81: the exception load_enrichment_data raises,
\* None when it returns.
LoadError(locRows, ppRows, zotRows) ==
    IF LoopError(locRows, LocationColumns) # None THEN LoopError(locRows, LocationColumns)
    ELSE IF LoopError(ppRows, PoolpartyColumns) # None
    THEN LoopError(ppRows, PoolpartyColumns)
    ELSE LoopError(zotRows, ZoteroColumns)

\* Search.py line 175, when load_enrichment_data raises: the script stops.
LoadEnrichmentRaises ==
    /\ pc = "start"
    /\ LoadError(loc_df, pp_df, zot_df) # None
    /\ ret' = [fn |-> "load_enrichment_data", args |-> <<>>,
               value |-> LoadError(loc_df, pp_df, zot_df)]
    /\ pc' = "load_raised"
    /\ UNCHANGED <<person, observations, obs_list, loc_df, pp_df, zot_df, df_columns,
                   enrichment, sidebar, all_data, relation_data, data, session>>

\* Search.py line 175.
LoadEnrichment ==
    /\ pc = "start"
    /\ LoadError(loc_df, pp_df, zot_df) = None
    /\ enrichment' = load_enrichment_data(loc_df, pp_df, zot_df)
    /\ pc' = "loaded"
    /\ UNCHANGED <<person, observations, obs_list, loc_df, pp_df, zot_df, df_columns, sidebar,
                   all_data, relation_data, ret, data, session>>

\* Search.py lines 183-184: the count is shown only for a non-empty map.
ZoteroCount(zotero) == IF zotero # <<>> THEN Len(zotero) \div 2 ELSE None

RenderSidebar ==
    /\ pc \in {"loaded", "reloaded"}
    /\ sidebar' = ZoteroCount(enrichment.zotero)
    /\ pc' = "search"
    /\ UNCHANGED <<person, observations, obs_list, loc_df, pp_df, zot_df, df_columns, enrichment,
                   all_data, relation_data, ret, data, session>>

---------------------------------------------------------------------------
(* Label resolution *)

IsException(v) == v \in {TypeError, AttributeError}

\* Search.py lines 128-141. uri.lower() raises for a uri that is None.
\* An entry of the location map always holds the key 'label', so the
\* default of .get('label', fallback) is never used.
get_enriched_label_FoldConcept(uri, enrichment_data, fallback) ==
    IF ~IsStr(uri) THEN AttributeError
    ELSE IF DictHas(enrichment_data.locations, Lower(uri))
    THEN Get(DictGet(enrichment_data.locations, Lower(uri)), "label", fallback)
    ELSE IF \E k \in DictKeys(enrichment_data.poolparty) : Lower(k) = Lower(uri)
    THEN LET k == CHOOSE k \in DictKeys(enrichment_data.poolparty) : Lower(k) = Lower(uri)
             label == Get(DictGet(enrichment_data.poolparty, k), "label", None)
         IN IF Truthy(label) THEN label ELSE fallback
    ELSE fallback

get_enriched_label(uri, enrichment_data, fallback) ==
    IF ~IsStr(uri) THEN AttributeError
    ELSE IF DictHas(enrichment_data.locations, Lower(uri))
    THEN Get(DictGet(enrichment_data.locations, Lower(uri)), "label", fallback)
    ELSE IF DictHas(enrichment_data.poolparty, uri)
    THEN LET label == Get(DictGet(enrichment_data.poolparty, uri), "label", None)
         IN IF Truthy(label) THEN label ELSE fallback
    ELSE fallback

\* Person_Details.py line 18: def get_enriched_label(uri, fallback='').
PageLabelParams == 2

\* A call of Person_Details.py's get_enriched_label (lines 18-31) with the
\* positional arguments args: more arguments than parameters raise
\* TypeError; the body is that of Search.py's function over the page's
\* enrichment_data.
PageGetEnrichedLabel(args) ==
    IF Len(args) > PageLabelParams THEN TypeError
    ELSE get_enriched_label(args[1], enrichment, IF Len(args) >= 2 THEN args[2] ELSE <<>>)

\* Person_Details.py lines 305-313: the location text of a timeline entry.
\* The second call passes three positional arguments.
TimelineLocationText(loc) ==
    LET location_uri == Get(loc, "location", <<>>)
        original_desc == Get(loc, "original_location_description", <<>>)
        enriched_location == PageGetEnrichedLabel(<<location_uri, <<>>>>)
    IN IF IsException(enriched_location) THEN enriched_location
       ELSE IF ~Truthy(enriched_location) /\ Truthy(original_desc)
       THEN PageGetEnrichedLabel(<<Upper(original_desc), enrichment, original_desc>>)
       ELSE enriched_location

\* relation_data before the relations tab runs: nothing raised, no entry.
NoRelationData == [error |-> None, entries |-> <<>>]

NoCall == [fn |-> "none", args |-> <<>>, value |-> None]

CallGetEnrichedLabel(uri, fallback) ==
    /\ pc = "search"
    /\ ret' = [fn |-> "get_enriched_label", args |-> <<uri, fallback>>,
               value |-> PageGetEnrichedLabel(<<uri, fallback>>)]
    /\ UNCHANGED <<pc, person, observations, obs_list, loc_df, pp_df, zot_df, df_columns,
                   enrichment, sidebar, all_data, relation_data, data, session>>

CallTimelineLocationText(loc) ==
    /\ pc = "search"
    /\ ret' = [fn |-> "location_text", args |-> <<loc>>,
               value |-> TimelineLocationText(loc)]
    /\ UNCHANGED <<pc, person, observations, obs_list, loc_df, pp_df, zot_df, df_columns,
                   enrichment, sidebar, all_data, relation_data, data, session>>

---------------------------------------------------------------------------
(* The timeline of one person cluster *)

MaxRecs == 2

Categories == <<"activeAs", "appellations", "identities", "locationRelations",
                "events", "relations">>

O1 == <<"o","1">>
O2 == <<"o","2">>
D1675 == <<"1","6","7","5">>
D1680 == <<"1","6","8","0">>
Circa1700 == <<"c","."," ","1","7","0","0">>
SrcA == <<"N","A"," ","1",".","0","4">>

\* The records of the timeline's inputs: observation_id is '' or an id,
\* the two dates are present or not.
TimelineRecords ==
    {[observation_id |-> o, observation_source |-> SrcA] @@ a @@ s :
        o \in {<<>>, O1, O2},
        a \in {<<>>, [annotationDate |-> D1680], [annotationDate |-> Circa1700]},
        s \in {<<>>, [startDate |-> D1675]}}

\* The clusters with at most MaxRecs records: cats gives each record's
\* category (in the order of Categories), recs the records.
ClusterOf(cats, recs) ==
    [c \in {Categories[i] : i \in 1..Len(Categories)} |->
        LET idx == SelectSeq([i \in 1..Len(cats) |-> i], LAMBDA i : Categories[cats[i]] = c)
        IN [j \in 1..Len(idx) |-> recs[idx[j]]]]

InitRest ==
    /\ observations = <<>>
    /\ obs_list = <<>>
    /\ loc_df = <<>>
    /\ pp_df = <<>>
    /\ zot_df = <<>>
    /\ df_columns = StandardColumns
    /\ enrichment = EmptyEnrichment
    /\ sidebar = None
    /\ all_data = <<>>
    /\ data = <<>>
    /\ session = <<>>
    /\ relation_data = NoRelationData
    /\ ret = NoCall

InitTimeline ==
    /\ pc = "timeline"
    /\ \E n \in 0..MaxRecs :
         \E cats \in [1..n -> 1..Len(Categories)] :
           /\ \A i \in 1..n : \A j \in 1..n : i < j => cats[i] <= cats[j]
           /\ \E recs \in [1..n -> TimelineRecords] :
                person = ClusterOf(cats, recs)
    /\ InitRest

NextTimeline == Aggregate \/ NoObservations \/ Sequence

SpecTimeline == InitTimeline /\ [][NextTimeline]_vars


---------------------------------------------------------------------------
(* Claims about the timeline *)

Aggregated == pc \in {"aggregated", "no_observations", "sorted"}

\* The key of an Observation that holds the records of a category.
ListName(category) ==
    CASE category = "activeAs" -> "activities"
      [] category = "locationRelations" -> "locations"
      [] OTHER -> category

InList(obs_data, listName, rec) ==
    \E i \in 1..Len(Get(obs_data, listName, <<>>)) : obs_data[listName][i] = rec

\* C1: after the aggregation, every record of any of the six categories
\* that has a non-empty observation_id is in the category list of the
\* Observation keyed by that id, and of no other Observation.
C1_EveryRecordInItsObservation ==
    Aggregated =>
        \A c \in 1..Len(Categories) :
            \A i \in 1..Len(person[Categories[c]]) :
                LET rec == person[Categories[c]][i]
                    obs_id == Get(rec, "observation_id", None)
                IN Truthy(obs_id) =>
                     /\ DictHas(observations, obs_id)
                     /\ \A k \in 1..Len(observations) :
                            InList(observations[k].v, ListName(Categories[c]), rec)
                                <=> observations[k].k = obs_id

\* C2: in the sorted timeline no Observation with an empty date set comes
\* before an Observation with a non-empty date set.
C2_UndatedLast ==
    pc = "sorted" =>
        \A i \in 1..Len(obs_list) : \A j \in 1..Len(obs_list) :
            i < j => ~(obs_list[i].dates = {} /\ obs_list[j].dates # {})

\* C3: in the sorted timeline two Observations with the same sort date are
\* in ascending order of observation_id.
C3_TieBreakById ==
    pc = "sorted" =>
        \A i \in 1..Len(obs_list) : \A j \in 1..Len(obs_list) :
            (i < j /\ obs_list[i].sort_date = obs_list[j].sort_date)
                => StrLess(obs_list[i].observation_id, obs_list[j].observation_id)

\* C4: the sort date of a dated Observation is the smallest of its dates
\* in the lexicographic order, the dated Observations of the sorted
\* timeline are in non-decreasing order of sort date, and the sorted
\* timeline is a permutation of the aggregated Observations.
C4_SortedByEarliestDate ==
    pc = "sorted" =>
        /\ \A i \in 1..Len(obs_list) :
              obs_list[i].dates # {} =>
                 /\ obs_list[i].sort_date \in obs_list[i].dates
                 /\ \A d \in obs_list[i].dates : StrLeq(obs_list[i].sort_date, d)
        /\ \A i \in 1..Len(obs_list) : \A j \in 1..Len(obs_list) :
              (i < j /\ obs_list[i].dates # {} /\ obs_list[j].dates # {})
                 => StrLeq(obs_list[i].sort_date, obs_list[j].sort_date)
        /\ Len(obs_list) = Len(observations)
        /\ \A k \in 1..Len(observations) :
              Cardinality({i \in 1..Len(obs_list) : obs_list[i] = observations[k].v}) = 1

\* Two dated Observations, one of them with two dates, that the sort
\* exchanges.
C4_Witness ==
    /\ pc = "sorted"
    /\ Len(obs_list) = 2
    /\ Cardinality(obs_list[1].dates) = 2
    /\ obs_list[2].dates # {}
    /\ obs_list[1].sort_date # obs_list[2].sort_date
    /\ obs_list[1] = observations[2].v


---------------------------------------------------------------------------
(* Label resolution over an index built from the two tables *)

MaxLocRows == 2
MaxPpRows == 1

LocK == <<"g",":","K">>
COCHIN == <<"C","O","C","H","I","N">>
Cochin == <<"C","o","c","h","i","n">>
Kochi == <<"K","o","c","h","i">>
Lat == <<"9.93">>
Lng == <<"76.26">>
ConceptE == <<"c",":","E">>
Koopman == <<"k","o","o","p","m","a","n">>
Role == <<"r","o","l","e">>
Fb == <<"f","b">>

\* An empty cell of a CSV file is NaN in the data frame.
LocRows ==
    [location_uri : {NaN, LocK, COCHIN}, label : {NaN, Kochi},
     latitude : {Lat}, longitude : {Lng}]

PpRows ==
    [uri : {NaN, ConceptE}, type : {Role}, dutch_prefLabel : {NaN, Koopman},
     definition : {NaN}]

QueryUris == {None, <<>>, LocK, Lower(LocK), Upper(LocK), ConceptE, Lower(ConceptE)}
Fallbacks == {<<>>, Fb}

LocationRecords ==
    {l @@ d : l \in {<<>>, [location |-> LocK]},
              d \in {<<>>, [original_location_description |-> Cochin]}}

InitLabel ==
    /\ pc = "start"
    /\ loc_df \in SeqUpTo(LocRows, MaxLocRows)
    /\ pp_df \in SeqUpTo(PpRows, MaxPpRows)
    /\ zot_df = <<>>
    /\ df_columns = StandardColumns
    /\ person = <<>>
    /\ observations = <<>>
    /\ obs_list = <<>>
    /\ enrichment = EmptyEnrichment
    /\ sidebar = None
    /\ all_data = <<>>
    /\ data = <<>>
    /\ session = <<>>
    /\ relation_data = NoRelationData
    /\ ret = NoCall

NextLabel ==
    \/ LoadEnrichment
    \/ RenderSidebar
    \/ \E uri \in QueryUris : \E fallback \in Fallbacks : CallGetEnrichedLabel(uri, fallback)
    \/ \E loc \in LocationRecords : CallTimelineLocationText(loc)

SpecLabel == InitLabel /\ [][NextLabel]_vars

\* C5: the location text of a timeline entry is a string and no exception;
\* when the location URI resolves to no label and the description is not
\* empty, it is the label of the upper-cased description or, failing that,
\* the description itself.
C5_LocationTextNeverRaises ==
    ret.fn = "location_text" =>
        LET loc == ret.args[1]
            uri == Get(loc, "location", <<>>)
            desc == Get(loc, "original_location_description", <<>>)
            first == get_enriched_label(uri, enrichment, <<>>)
        IN /\ ~IsException(ret.value)
           /\ (first = <<>> /\ desc # <<>>) =>
                 ret.value = get_enriched_label(Upper(desc), enrichment, desc)

\* C6: for a URI that is a key of neither the location map (lowercased)
\* nor the concept map (as given), get_enriched_label returns the fallback.
C6_UnknownUriGivesFallback ==
    (/\ ret.fn = "get_enriched_label"
     /\ IsStr(ret.args[1])
     /\ Lower(ret.args[1]) \notin DictKeys(enrichment.locations)
     /\ ret.args[1] \notin DictKeys(enrichment.poolparty))
        => ret.value = ret.args[2]

\* A URI that is no key, while the concept map holds a key that differs
\* from it in letter case only and has a label, and the fallback is not ''.
C6_Witness ==
    /\ ret.fn = "get_enriched_label"
    /\ IsStr(ret.args[1])
    /\ Lower(ret.args[1]) \notin DictKeys(enrichment.locations)
    /\ ret.args[1] \notin DictKeys(enrichment.poolparty)
    /\ \E k \in DictKeys(enrichment.poolparty) :
          /\ Lower(k) = Lower(ret.args[1])
          /\ DictGet(enrichment.poolparty, k).label = Koopman
    /\ enrichment.locations # <<>>
    /\ ret.args[2] = Fb
    /\ ret.value = Fb

\* C7: when the lowercased URI is a key of the location map and the entry's
\* label is empty or missing, get_enriched_label returns the fallback.
C7_EmptyLocationLabelGivesFallback ==
    (/\ ret.fn = "get_enriched_label"
     /\ IsStr(ret.args[1])
     /\ DictHas(enrichment.locations, Lower(ret.args[1]))
     /\ Get(DictGet(enrichment.locations, Lower(ret.args[1])), "label", None)
            \in {None, NaN, <<>>})
        => ret.value = ret.args[2]

---------------------------------------------------------------------------
(* The citation index *)

MaxZotRows == 2

Zot == <<"z","o","t","e","r","o",".","o","r","g","/">>
ZotA == Zot \o <<"A">>
ZotLowerA == Zot \o <<"a">>
ZotB == Zot \o <<"B">>
Ref1 == <<"R","e","f"," ","1">>
Ref2 == <<"R","e","f"," ","2">>

ZotRows == [zotero_uri : {NaN, ZotA, ZotLowerA, ZotB}, source_reference : {NaN, Ref1, Ref2}]

InitCitation ==
    /\ pc = "start"
    /\ loc_df = <<>>
    /\ pp_df = <<>>
    /\ zot_df \in SeqUpTo(ZotRows, MaxZotRows)
    /\ df_columns = StandardColumns
    /\ person = <<>>
    /\ observations = <<>>
    /\ obs_list = <<>>
    /\ enrichment = EmptyEnrichment
    /\ sidebar = None
    /\ all_data = <<>>
    /\ data = <<>>
    /\ session = <<>>
    /\ relation_data = NoRelationData
    /\ ret = NoCall

NextCitation == LoadEnrichment \/ RenderSidebar

SpecCitation == InitCitation /\ [][NextCitation]_vars

Loaded == pc \in {"loaded", "search"}

\* The rows of zotero_uris.csv that have a URI.
UriRows == {i \in 1..Len(zot_df) : notna(zot_df[i].zotero_uri)}

\* C8: built from rows with pairwise distinct non-empty URIs, the citation
\* map has twice as many entries as there are such rows, and the sidebar
\* shows the number of rows.
C8_TwoEntriesPerRow ==
    (\A i \in UriRows : \A j \in UriRows :
        i # j => zot_df[i].zotero_uri # zot_df[j].zotero_uri)
      => /\ Loaded => Len(enrichment.zotero) = 2 * Cardinality(UriRows)
         /\ (pc = "search" /\ UriRows # {}) => sidebar = Cardinality(UriRows)

\* What the claim says of row i: both keys are held and map to the row's
\* citation text, or to the URI when the text is absent.
RowIsIndexed(i) ==
    LET u == zot_df[i].zotero_uri
        text == IF notna(zot_df[i].source_reference) THEN zot_df[i].source_reference ELSE u
    IN /\ DictHas(enrichment.zotero, u)
       /\ DictHas(enrichment.zotero, Lower(u))
       /\ DictGet(enrichment.zotero, u) = DictGet(enrichment.zotero, Lower(u))
       /\ DictGet(enrichment.zotero, u) = text

\* C9 as stated: after the build from any rows, every row that has a URI
\* is indexed under both keys with its own citation text.
C9_EveryRowIndexed ==
    Loaded => \A i \in UriRows : RowIsIndexed(i)

\* C9 as amended: every row that has a URI which no later row repeats,
\* letter case ignored, is indexed under both keys with its own citation
\* text.
C9_LastRowIndexed ==
    Loaded =>
        \A i \in UriRows :
            (\A j \in UriRows : j > i => Lower(zot_df[j].zotero_uri) # Lower(zot_df[i].zotero_uri))
                => RowIsIndexed(i)

\* A row with an upper-case letter in its URI and no citation text, after
\* an earlier row with another URI.
C9_Witness ==
    /\ Loaded
    /\ Len(zot_df) = 2
    /\ zot_df[1].zotero_uri = ZotB
    /\ zot_df[2].zotero_uri = ZotA
    /\ zot_df[2].source_reference = NaN
    /\ DictGet(enrichment.zotero, ZotLowerA) = ZotA
    /\ Len(enrichment.zotero) = 4


---------------------------------------------------------------------------
(* Person_Details.py, the relations tab (lines 687-766) *)

ZoteroOrg == <<"z","o","t","e","r","o",".","o","r","g">>

\* Lines 84-86: the citation of the first key, in the map's order, whose
\* lowercased form occurs in the lowercased source; the source when there
\* is none.
FirstContainedCitation(zotero_data, source_string) ==
    LET hits == {i \in 1..Len(zotero_data) :
                    Contains(Lower(source_string), Lower(zotero_data[i].k))}
    IN IF hits = {} THEN source_string
       ELSE zotero_data[CHOOSE i \in hits : \A j \in hits : i <= j].v

\* A resolution that tries the lowercased key before the key as given.
get_better_source_LowerFirst(source_string) ==
    IF ~Truthy(source_string) THEN source_string
    ELSE LET zotero_data == Get(enrichment, "zotero", <<>>) IN
         IF DictHas(zotero_data, Lower(source_string))
         THEN DictGet(zotero_data, Lower(source_string))
         ELSE IF DictHas(zotero_data, source_string) THEN DictGet(zotero_data, source_string)
         ELSE IF Contains(Lower(source_string), ZoteroOrg)
         THEN FirstContainedCitation(zotero_data, source_string)
         ELSE source_string

\* Lines 66-88.
get_better_source(source_string) ==
    IF ~Truthy(source_string) THEN source_string
    ELSE LET zotero_data == Get(enrichment, "zotero", <<>>) IN
         IF DictHas(zotero_data, source_string) THEN DictGet(zotero_data, source_string)
         ELSE IF DictHas(zotero_data, Lower(source_string))
         THEN DictGet(zotero_data, Lower(source_string))
         ELSE IF Contains(Lower(source_string), ZoteroOrg)
         THEN FirstContainedCitation(zotero_data, source_string)
         ELSE source_string

\* Lines 50-55.
get_primary_name(person_data) ==
    LET appellations == Get(person_data, "appellations", <<>>)
    IN IF appellations # <<>> THEN Get(appellations[1], "appellation", Unknown)
       ELSE Unknown

\* Lines 707-711: other_person_id is the relation's otherPerson when that
\* is truthy and a key of the dataset, and stays None otherwise.
FindClusterId_AnyCase(other_person_uri, dataset) ==
    IF Truthy(other_person_uri)
       /\ \E k \in DictKeys(dataset) : Lower(k) = Lower(other_person_uri)
    THEN CHOOSE k \in DictKeys(dataset) : Lower(k) = Lower(other_person_uri)
    ELSE None

FindClusterId(other_person_uri, dataset) ==
    IF Truthy(other_person_uri) /\ DictHas(dataset, other_person_uri)
    THEN other_person_uri
    ELSE None

\* Lines 698-723: the entry of relation_data for one relation. On line 712
\* other_person_uri is the key that other_person_id holds.
RelationEntry(rel) ==
    LET relation_type_uri == Get(rel, "relation", <<>>)
        other_person_uri == Get(rel, "otherPerson", <<>>)
        enriched_relation == PageGetEnrichedLabel(<<relation_type_uri, Get(rel, "original_label", NA)>>)
        other_person_id == FindClusterId(other_person_uri, all_data)
        other_person_name == IF other_person_id # None
                             THEN get_primary_name(DictGet(all_data, other_person_id))
                             ELSE Unknown
    IN ("Relation Type" :> enriched_relation)
       @@ ("Related Person" :> other_person_name)
       @@ ("Cluster ID" :> IF Truthy(other_person_id) THEN other_person_id ELSE NotFound)
       @@ ("Date" :> Get(rel, "annotationDate", NA))
       @@ ("Source" :> get_better_source(Get(rel, "observation_source", NA)))
       @@ ("other_person_uri" :> other_person_uri)
       @@ ("other_person_id" :> other_person_id)

\* Lines 689-723. An exception of the label lookup leaves the loop:
\* relation_data then holds the entries of the relations before it.
ResolveRelations ==
    /\ pc \in {"relations", "tabs_shown"}
    /\ Get(person, "relations", <<>>) # <<>>
    /\ LET relations == Get(person, "relations", <<>>)
           entries == [i \in 1..Len(relations) |-> RelationEntry(relations[i])]
           raising == {i \in 1..Len(entries) : IsException(entries[i]["Relation Type"])}
           first == CHOOSE i \in raising : \A j \in raising : i <= j
       IN relation_data' =
            IF raising # {}
            THEN [error |-> entries[first]["Relation Type"],
                  entries |-> SubSeq(entries, 1, first - 1)]
            ELSE [error |-> None, entries |-> entries]
    /\ pc' = "relations_done"
    /\ UNCHANGED <<person, observations, obs_list, loc_df, pp_df, zot_df, df_columns, enrichment,
                   sidebar, all_data, ret, data, session>>

\* Lines 765-766: no relation recorded.
NoRelations ==
    /\ pc \in {"relations", "tabs_shown"}
    /\ Get(person, "relations", <<>>) = <<>>
    /\ pc' = "no_relations"
    /\ UNCHANGED <<person, observations, obs_list, loc_df, pp_df, zot_df, df_columns, enrichment,
                   sidebar, all_data, relation_data, ret, data, session>>

MaxRels == 2

P0 == <<"p","0">>
P1 == <<"p","1">>
UpperP1 == <<"P","1">>
P2 == <<"p","2">>
Jan == <<"J","a","n">>
Piet == <<"P","i","e","t">>
Alias == <<"a","l","i","a","s">>
ConceptR == <<"c",":","R">>
Wife == <<"w","i","f","e">>

\* The appellation lists of the other clusters: none, one with a name, one
\* without the key 'appellation', and two names.
AppellationLists ==
    {<<>>, <<[appellation |-> Jan]>>, <<[appellationType |-> Alias]>>,
     <<[appellation |-> Piet], [appellation |-> Jan]>>}

RelationRecords ==
    {[relation |-> ConceptR, original_label |-> Wife] @@ o :
        o \in {<<>>} \cup [otherPerson : {None, <<>>, P1, UpperP1, P2}]}

\* The dataset: the selected cluster p0, and p1 and P1 each present or not.
Datasets ==
    {<<[k |-> P0, v |-> [appellations |-> <<[appellation |-> Piet]>>, relations |-> rels]]>>
       \o a \o b :
        rels \in SeqUpTo(RelationRecords, MaxRels),
        a \in {<<>>} \cup {<<[k |-> P1, v |-> [appellations |-> l]]>> : l \in AppellationLists},
        b \in {<<>>} \cup {<<[k |-> UpperP1, v |-> [appellations |-> l]]>> : l \in AppellationLists}}

InitRelations ==
    /\ pc = "relations"
    /\ all_data \in Datasets
    /\ data = <<>>
    /\ session = <<>>
    /\ person = DictGet(all_data, P0)
    /\ observations = <<>>
    /\ obs_list = <<>>
    /\ loc_df = <<>>
    /\ pp_df = <<>>
    /\ zot_df = <<>>
    /\ df_columns = StandardColumns
    /\ enrichment = EmptyEnrichment
    /\ sidebar = None
    /\ relation_data = NoRelationData
    /\ ret = NoCall

NextRelations == ResolveRelations \/ NoRelations

SpecRelations == InitRelations /\ [][NextRelations]_vars

\* C10: a relation whose otherPerson is a key of the dataset, verbatim, is
\* resolved to that cluster id and to the appellation of the cluster's first
\* appellation record ('Unknown' without one); any other relation is
\* resolved to 'Unknown' and 'Not found', and nothing is raised.
C10_RelationResolvedByExactKey ==
    pc = "relations_done" =>
        /\ relation_data.error = None
        /\ Len(relation_data.entries) = Len(person.relations)
        /\ \A i \in 1..Len(person.relations) :
              LET target == Get(person.relations[i], "otherPerson", <<>>)
                  entry == relation_data.entries[i]
              IN IF target \notin {None, <<>>} /\ target \in DictKeys(all_data)
                 THEN /\ entry["Cluster ID"] = target
                      /\ LET apps == DictGet(all_data, target).appellations
                         IN entry["Related Person"] =
                               IF apps # <<>> /\ "appellation" \in DOMAIN apps[1]
                               THEN apps[1].appellation ELSE Unknown
                 ELSE /\ entry["Cluster ID"] = NotFound
                      /\ entry["Related Person"] = Unknown

\* One relation resolved to a named cluster, and one whose target differs
\* from a key of the dataset in letter case only and is not found.
C10_Witness ==
    /\ pc = "relations_done"
    /\ Len(relation_data.entries) = 2
    /\ relation_data.entries[1]["Cluster ID"] = P1
    /\ relation_data.entries[1]["Related Person"] = Piet
    /\ Get(person.relations[2], "otherPerson", <<>>) = UpperP1
    /\ P1 \in DictKeys(all_data)
    /\ UpperP1 \notin DictKeys(all_data)
    /\ relation_data.entries[2]["Cluster ID"] = NotFound
    /\ relation_data.entries[2]["Related Person"] = Unknown

---------------------------------------------------------------------------
(* timeline_view.py: the timeline of display_timeline *)

unknown == <<"u","n","k","n","o","w","n">>
Year9999 == <<"9","9","9","9">>

IsDigit(c) == c \in {"0","1","2","3","4","5","6","7","8","9"}

\* \w of the regular expression: a letter or a digit (the strings of the
\* model hold no underscore).
IsWordChar(c) ==
    \/ IsDigit(c)
    \/ \E i \in 1..Len(UpperLetters) : c = UpperLetters[i] \/ c = LowerLetters[i]

\* Lines 7-16: re.search(r'\b(\d{4})\b', str(date_str)), the leftmost run of
\* exactly four digits between two word boundaries. The int the code
\* returns is kept as its four-digit numeral.
extract_year_from_date(date_str) ==
    IF ~Truthy(date_str) THEN None
    ELSE LET matches == {i \in 1..Len(date_str) :
                            /\ i + 3 <= Len(date_str)
                            /\ \A j \in i..(i + 3) : IsDigit(date_str[j])
                            /\ (i = 1 \/ ~IsWordChar(date_str[i - 1]))
                            /\ (i + 3 = Len(date_str) \/ ~IsWordChar(date_str[i + 4]))}
         IN IF matches = {} THEN None
            ELSE LET first == CHOOSE i \in matches : \A j \in matches : i <= j
                 IN SubSeq(date_str, first, first + 3)

\* Lines 20-32: the value defaultdict makes for a key it does not hold.
BlankObservation ==
    [observation_id |-> <<>>,
     date |-> None,
     year |-> None,
     source |-> <<>>,
     location_in_source |-> <<>>,
     appellations |-> <<>>,
     activities |-> <<>>,
     identities |-> <<>>,
     locations |-> <<>>,
     relations |-> <<>>,
     events |-> <<>>]

\* The body of one of the six loops for one record. The appellations loop
\* (lines 35-43) assigns date and year always, the other loops only when
\* obs['date'] is falsy.
GroupRecord(obs, rec, listName, alwaysDate) ==
    LET obs_id == Get(rec, "observation_id", unknown)
        old == IF DictHas(obs, obs_id) THEN DictGet(obs, obs_id) ELSE BlankObservation
        setDate == alwaysDate \/ ~Truthy(old.date)
        new == [old EXCEPT
                  !.observation_id = obs_id,
                  !.date = IF setDate THEN Get(rec, "annotationDate", None) ELSE @,
                  !.year = IF setDate
                           THEN extract_year_from_date(Get(rec, "annotationDate", None))
                           ELSE @,
                  !.source = Get(rec, "observation_source", <<>>),
                  !.location_in_source = Get(rec, "location_in_observation_source", <<>>),
                  ![listName] = Append(@, rec)]
    IN DictSet(obs, obs_id, new)

RECURSIVE GroupCategory(_, _, _, _)
GroupCategory(obs, recs, listName, alwaysDate) ==
    IF recs = <<>> THEN obs
    ELSE GroupCategory(GroupRecord(obs, recs[1], listName, alwaysDate),
                       Tail(recs), listName, alwaysDate)

\* Lines 18-100: the loops over appellations, activeAs, identities,
\* locationRelations, relations and events, in this order.
group_by_observation(cluster_data) ==
    LET o1 == GroupCategory(<<>>, Get(cluster_data, "appellations", <<>>),
                            "appellations", TRUE)
        o2 == GroupCategory(o1, Get(cluster_data, "activeAs", <<>>),
                            "activities", FALSE)
        o3 == GroupCategory(o2, Get(cluster_data, "identities", <<>>),
                            "identities", FALSE)
        o4 == GroupCategory(o3, Get(cluster_data, "locationRelations", <<>>),
                            "locations", FALSE)
        o5 == GroupCategory(o4, Get(cluster_data, "relations", <<>>),
                            "relations", FALSE)
    IN GroupCategory(o5, Get(cluster_data, "events", <<>>), "events", FALSE)

\* Lines 106-111: the key (year or 9999, obs_id) of an item, and Python's
\* order of two such tuples. Four-digit numerals are ordered as their
\* numbers are.
sort_key(item) ==
    [year |-> IF item.v.year = None THEN Year9999 ELSE item.v.year, obs_id |-> item.k]

SortKeyLess(x, y) ==
    \/ StrLess(sort_key(x).year, sort_key(y).year)
    \/ sort_key(x).year = sort_key(y).year /\ StrLess(sort_key(x).obs_id, sort_key(y).obs_id)

RECURSIVE InsertByKey(_, _)
InsertByKey(sorted, x) ==
    IF sorted = <<>> THEN <<x>>
    ELSE IF SortKeyLess(x, sorted[1]) THEN <<x>> \o sorted
    ELSE <<sorted[1]>> \o InsertByKey(Tail(sorted), x)

\* Lines 102-113: sorted(list(observations.items()), key=sort_key).
RECURSIVE sort_observations(_)
sort_observations(obs) ==
    IF obs = <<>> THEN <<>>
    ELSE InsertByKey(sort_observations(SubSeq(obs, 1, Len(obs) - 1)), obs[Len(obs)])

\* Lines 223-260: display_timeline groups the cluster, returns when there is
\* no observation and sorts otherwise.
DisplayTimeline ==
    /\ pc = "timeline"
    /\ LET grouped == group_by_observation(person)
       IN ret' = [fn |-> "display_timeline",
                  args |-> <<>>,
                  value |-> [observations |-> grouped,
                             sorted_obs |-> IF grouped = <<>> THEN <<>>
                                            ELSE sort_observations(grouped)]]
    /\ pc' = "timeline_view"
    /\ UNCHANGED <<person, observations, obs_list, loc_df, pp_df, zot_df, df_columns,
                   enrichment, sidebar, all_data, relation_data, data, session>>

---------------------------------------------------------------------------
(* The sources of an observation, in both timelines *)

MaxSrcRecs == 2

SrcB == <<"N","A"," ","1",".","1","1">>
RecA == <<"r","e","c"," ","A">>

\* Records that carry an observation id and a source; the reconstruction
\* source and the annotation date are present or not.
SourceRecords ==
    {[observation_id |-> o, observation_source |-> s] @@ r @@ a :
        o \in {O1, O2},
        s \in {SrcA, SrcB},
        r \in {<<>>, [reconstruction_source |-> RecA]},
        a \in {<<>>, [annotationDate |-> D1680]}}

InitSources ==
    /\ pc = "timeline"
    /\ \E n \in 0..MaxSrcRecs :
         \E cats \in [1..n -> 1..Len(Categories)] :
           /\ \A i \in 1..n : \A j \in 1..n : i < j => cats[i] <= cats[j]
           /\ \E recs \in [1..n -> SourceRecords] :
                person = ClusterOf(cats, recs)
    /\ InitRest

NextSources == Aggregate \/ NoObservations \/ Sequence \/ DisplayTimeline

SpecSources == InitSources /\ [][NextSources]_vars

\* The records of a cluster in the visitation order activities,
\* appellations, identities, locations, events.
VisitationOrder == <<"activeAs", "appellations", "identities", "locationRelations", "events">>

VisitedRecords(p) ==
    Get(p, VisitationOrder[1], <<>>) \o Get(p, VisitationOrder[2], <<>>)
      \o Get(p, VisitationOrder[3], <<>>) \o Get(p, VisitationOrder[4], <<>>)
      \o Get(p, VisitationOrder[5], <<>>)

HasRecordOf(p, obs_id) ==
    \E i \in 1..Len(VisitedRecords(p)) :
        Get(VisitedRecords(p)[i], "observation_id", None) = obs_id

FirstRecordOf(p, obs_id) ==
    LET recs == VisitedRecords(p)
        first == CHOOSE i \in 1..Len(recs) :
                    /\ Get(recs[i], "observation_id", None) = obs_id
                    /\ \A j \in 1..(i - 1) : Get(recs[j], "observation_id", None) # obs_id
    IN recs[first]

\* obs_data carries the two sources of the first record of its id.
SourcesOfFirstRecord(obs_id, obs_data) ==
    HasRecordOf(person, obs_id) =>
        LET first == FirstRecordOf(person, obs_id) IN
        /\ "observation_source" \in DOMAIN first =>
              obs_data.source = first.observation_source
        /\ "reconstruction_source" \in DOMAIN first =>
              /\ "reconstruction_source" \in DOMAIN obs_data
              /\ obs_data.reconstruction_source = first.reconstruction_source

\* The Observations the page's timeline tab holds after its aggregation.
PageSourcesOfFirstRecord ==
    Aggregated =>
        \A i \in 1..Len(observations) :
            SourcesOfFirstRecord(observations[i].k, observations[i].v)

\* The Observations display_timeline holds after its grouping.
GroupedSourcesOfFirstRecord ==
    pc = "timeline_view" =>
        \A i \in 1..Len(ret.value.observations) :
            SourcesOfFirstRecord(ret.value.observations[i].k, ret.value.observations[i].v)

\* C11: an Observation's source and reconstruction_source are those of the
\* first record with its observation_id in the visitation order activities,
\* appellations, identities, locations, events; no later record with the
\* same id changes them. This holds of every Observation the program
\* builds, in the page's timeline tab and in display_timeline.
C11_SourcesOfFirstRecord == PageSourcesOfFirstRecord /\ GroupedSourcesOfFirstRecord

---------------------------------------------------------------------------
(* The date set of an observation *)

\* The records an Observation holds, in whichever of its lists.
RecordsOf(obs_data) ==
    UNION {{obs_data[l][i] : i \in 1..Len(obs_data[l])} :
              l \in {"activities", "appellations", "identities", "locations", "events"}}

\* The non-empty annotationDate and startDate values of a set of records.
DatesOf(recs) ==
    ({Get(rec, "annotationDate", <<>>) : rec \in recs}
       \cup {Get(rec, "startDate", <<>>) : rec \in recs}) \ {<<>>, None}

\* C12: after aggregation, an Observation's date set equals the set of all
\* non-empty annotationDate and startDate values of the records that belong
\* to it, whatever their category.
C12_DatesOfAllRecords ==
    Aggregated =>
        \A i \in 1..Len(observations) :
            observations[i].v.dates = DatesOf(RecordsOf(observations[i].v))

---------------------------------------------------------------------------
(* Person_Details.py: what the page renders after the aggregation *)

UnknownEvent == <<"U","n","k","n","o","w","n"," ","E","v","e","n","t">>

\* An event label that consults the label maps before event_labels.
get_event_label_ConceptFirst(event_uri, original_label) ==
    LET label == PageGetEnrichedLabel(<<event_uri, original_label>>)
    IN IF label # original_label THEN label
       ELSE IF DictHas(Get(enrichment, "event_labels", <<>>), event_uri)
       THEN DictGet(enrichment.event_labels, event_uri)
       ELSE label

\* Lines 57-64: event_labels is consulted first, then get_enriched_label.
get_event_label(event_uri, original_label) ==
    IF DictHas(Get(enrichment, "event_labels", <<>>), event_uri)
    THEN DictGet(enrichment.event_labels, event_uri)
    ELSE PageGetEnrichedLabel(<<event_uri, original_label>>)

\* The lookup of a location's label with the retry on the upper-cased
\* description (lines 305-308, 388-392, 405-409, 504-509, 563-570): the
\* retry passes three positional arguments.
EnrichedLocation(location_uri, original_desc, fallback) ==
    LET enriched_location == PageGetEnrichedLabel(<<location_uri, <<>>>>)
    IN IF IsException(enriched_location) THEN enriched_location
       ELSE IF ~Truthy(enriched_location) /\ Truthy(original_desc)
       THEN PageGetEnrichedLabel(<<Upper(original_desc), enrichment, fallback>>)
       ELSE enriched_location

\* The first exception among the outcomes of a sequence of calls, None
\* when no call raises: the script stops at the first exception.
FirstException(results) ==
    IF \E i \in 1..Len(results) : IsException(results[i])
    THEN results[CHOOSE i \in 1..Len(results) :
                    /\ IsException(results[i])
                    /\ \A j \in 1..(i - 1) : ~IsException(results[j])]
    ELSE None

RECURSIVE Flatten(_)
Flatten(seqs) == IF seqs = <<>> THEN <<>> ELSE seqs[1] \o Flatten(Tail(seqs))

\* Lines 283-416: the label lookups made for one timeline entry, in the
\* order the script makes them (summary line first, then the expander).
TimelineEntryCalls(obs) ==
    LET desc(rec, default) == Get(rec, "original_location_description", default)
    IN (IF obs.activities # <<>>
        THEN <<PageGetEnrichedLabel(<<Get(obs.activities[1], "activity", <<>>),
                                      Get(obs.activities[1], "original_label", <<>>)>>)>>
        ELSE <<>>)
       \o (IF obs.locations # <<>>
           THEN <<EnrichedLocation(Get(obs.locations[1], "location", <<>>),
                                   desc(obs.locations[1], <<>>), desc(obs.locations[1], <<>>))>>
           ELSE <<>>)
       \o (IF obs.events # <<>>
           THEN <<get_event_label(Get(obs.events[1], "event", <<>>),
                                  Get(obs.events[1], "original_label", <<>>))>>
           ELSE <<>>)
       \o [i \in 1..Len(obs.appellations) |->
              PageGetEnrichedLabel(<<Get(obs.appellations[i], "appellationType", <<>>), <<>>>>)]
       \o [i \in 1..Len(obs.activities) |->
              PageGetEnrichedLabel(<<Get(obs.activities[i], "activity", <<>>),
                                     Get(obs.activities[i], "original_label", NA)>>)]
       \o [i \in 1..Len(obs.identities) |->
              PageGetEnrichedLabel(<<Get(obs.identities[i], "identity", <<>>),
                                     Get(obs.identities[i], "original_label", NA)>>)]
       \o Flatten([i \in 1..Len(obs.locations) |->
              <<PageGetEnrichedLabel(<<Get(obs.locations[i], "locationRelation", <<>>),
                                       Get(obs.locations[i], "original_label", <<>>)>>),
                EnrichedLocation(Get(obs.locations[i], "location", <<>>),
                                 desc(obs.locations[i], Unknown),
                                 desc(obs.locations[i], Unknown))>>])
       \o Flatten([i \in 1..Len(obs.events) |->
              <<get_event_label(Get(obs.events[i], "event", <<>>),
                                Get(obs.events[i], "original_label", UnknownEvent)),
                EnrichedLocation(Get(obs.events[i], "location", <<>>),
                                 desc(obs.events[i], <<>>), desc(obs.events[i], <<>>))>>])

\* Lines 265-416: the entries are rendered in the order of obs_list.
TimelineCalls(list) == Flatten([i \in 1..Len(list) |-> TimelineEntryCalls(list[i])])

\* The label lookups a category tab makes for one of its records
\* (t1 lines 430-436, t2 lines 501-511, t3 lines 560-570, t4 lines 603-608,
\* t5 lines 632-639).
TabCalls(category, rec) ==
    CASE category = "activeAs" ->
           <<PageGetEnrichedLabel(<<Get(rec, "activity", <<>>), Get(rec, "original_label", NA)>>),
             PageGetEnrichedLabel(<<Get(rec, "activityType", <<>>), <<>>>>)>>
      [] category = "locationRelations" ->
           <<EnrichedLocation(Get(rec, "location", <<>>),
                              Get(rec, "original_location_description", Unknown), <<>>),
             PageGetEnrichedLabel(<<Get(rec, "locationRelation", <<>>),
                                    Get(rec, "original_label", NA)>>)>>
      [] category = "events" ->
           <<get_event_label(Get(rec, "event", <<>>), Get(rec, "original_label", UnknownEvent)),
             EnrichedLocation(Get(rec, "location", <<>>),
                              Get(rec, "original_location_description", Unknown),
                              Get(rec, "original_location_description", Unknown))>>
      [] category = "appellations" ->
           <<PageGetEnrichedLabel(<<Get(rec, "appellationType", <<>>), NA>>)>>
      [] category = "identities" ->
           <<PageGetEnrichedLabel(<<Get(rec, "identity", <<>>), Get(rec, "original_label", NA)>>),
             PageGetEnrichedLabel(<<Get(rec, "identityType", <<>>), NA>>)>>

\* Lines 102-111: the category tabs in the order the script fills them.
CategoryTabs == <<"activeAs", "locationRelations", "events", "appellations", "identities">>

\* The first exception a tab raises while it builds its rows, None when it
\* shows its table and its raw records (st.json of every record).
TabError(p, category) ==
    FirstException(Flatten([i \in 1..Len(Get(p, category, <<>>)) |->
                               TabCalls(category, Get(p, category, <<>>)[i])]))

\* The tabs that are filled before the script stops: all of them when no
\* tab raises, otherwise those before the first tab that raises.
ShownTabs(p) ==
    LET failing == {i \in 1..Len(CategoryTabs) : TabError(p, CategoryTabs[i]) # None}
        last == IF failing = {} THEN Len(CategoryTabs)
                ELSE (CHOOSE i \in failing : \A j \in failing : i <= j) - 1
    IN [i \in 1..last |-> [tab |-> CategoryTabs[i],
                           records |-> Get(p, CategoryTabs[i], <<>>)]]

TabsError(p) ==
    FirstException([i \in 1..Len(CategoryTabs) |-> TabError(p, CategoryTabs[i])])

\* Lines 265-416 raise: the script stops inside the timeline tab.
RenderTimelineRaises ==
    /\ pc = "sorted"
    /\ FirstException(TimelineCalls(obs_list)) # None
    /\ ret' = [fn |-> "page", args |-> <<>>,
               value |-> [tabs |-> <<>>, error |-> FirstException(TimelineCalls(obs_list))]]
    /\ pc' = "page_raised"
    /\ UNCHANGED <<person, observations, obs_list, loc_df, pp_df, zot_df, df_columns,
                   enrichment, sidebar, all_data, relation_data, data, session>>

\* Lines 423-685, after a timeline tab that did not raise: the five
\* category tabs.
RenderCategoryTabs ==
    /\ \/ pc = "no_observations"
       \/ pc = "sorted" /\ FirstException(TimelineCalls(obs_list)) = None
    /\ ret' = [fn |-> "page", args |-> <<>>,
               value |-> [tabs |-> ShownTabs(person), error |-> TabsError(person)]]
    /\ pc' = IF TabsError(person) = None THEN "tabs_shown" ELSE "page_raised"
    /\ UNCHANGED <<person, observations, obs_list, loc_df, pp_df, zot_df, df_columns,
                   enrichment, sidebar, all_data, relation_data, data, session>>

---------------------------------------------------------------------------
(* Records without an observation id *)

MaxNoIdRecs == 2

\* Records whose observation_id is missing, '' or an id; a location
\* description is absent or ''.
NoIdRecords ==
    {[observation_source |-> SrcA] @@ o @@ d :
        o \in {<<>>, [observation_id |-> <<>>], [observation_id |-> O1]},
        d \in {<<>>, [original_location_description |-> <<>>]}}

InitNoId ==
    /\ pc = "timeline"
    /\ \E n \in 0..MaxNoIdRecs :
         \E cats \in [1..n -> 1..Len(Categories)] :
           /\ \A i \in 1..n : \A j \in 1..n : i < j => cats[i] <= cats[j]
           /\ \E recs \in [1..n -> NoIdRecords] :
                person = ClusterOf(cats, recs)
    /\ InitRest

NextNoId ==
    \/ Aggregate
    \/ NoObservations
    \/ Sequence
    \/ RenderTimelineRaises
    \/ RenderCategoryTabs
    \/ DisplayTimeline

SpecNoId == InitNoId /\ [][NextNoId]_vars

\* The records of the five categories that have a missing or empty
\* observation_id, each with its category.
RecordsWithoutId ==
    {cr \in UNION {{[category |-> c, rec |-> person[c][i]] : i \in 1..Len(person[c])} :
                      c \in {CategoryTabs[t] : t \in 1..Len(CategoryTabs)}} :
        ~Truthy(Get(cr.rec, "observation_id", None))}

\* The observation ids the records of the cluster carry.
IdsOfRecords ==
    UNION {{Get(person[c][i], "observation_id", <<>>) : i \in 1..Len(person[c])} :
              c \in DOMAIN person} \ {<<>>}

\* obs, a dict of Observations, holds rec in no list and has no key that is
\* not the non-empty id of some record.
InNoObservation(obs, cr) ==
    /\ \A i \in 1..Len(obs) : ~InList(obs[i].v, ListName(cr.category), cr.rec)
    /\ \A i \in 1..Len(obs) : Truthy(obs[i].k) /\ obs[i].k \in IdsOfRecords

\* The page's run has ended and cr is among the records its category tab
\* shows.
InCategoryTab(cr) ==
    /\ ret.fn = "page"
    /\ \E t \in 1..Len(ret.value.tabs) :
          /\ ret.value.tabs[t].tab = cr.category
          /\ \E i \in 1..Len(ret.value.tabs[t].records) :
                ret.value.tabs[t].records[i] = cr.rec

\* C13: a record with a missing or empty observation_id is placed in no
\* Observation, and no Observation is created for it under a synthetic id,
\* in the page's timeline tab and in display_timeline; once the page has
\* been rendered, the record is shown in its category tab.
C13_NoObservationForMissingId ==
    \A cr \in RecordsWithoutId :
        /\ Aggregated => InNoObservation(observations, cr)
        /\ pc = "timeline_view" => InNoObservation(ret.value.observations, cr)
        /\ pc \in {"tabs_shown", "page_raised"} => InCategoryTab(cr)

---------------------------------------------------------------------------
(* Event labels *)

CallGetEventLabel(event_uri, original_label) ==
    /\ pc = "search"
    /\ ret' = [fn |-> "get_event_label", args |-> <<event_uri, original_label>>,
               value |-> get_event_label(event_uri, original_label)]
    /\ UNCHANGED <<pc, person, observations, obs_list, loc_df, pp_df, zot_df, df_columns,
                   enrichment, sidebar, all_data, relation_data, data, session>>

\* Tables that may hold the being-dead URI as a location and as a concept.
EventLocRows ==
    [location_uri : {BeingDead, LocK}, label : {Kochi},
     latitude : {Lat}, longitude : {Lng}]

EventPpRows ==
    [uri : {BeingDead, ConceptE}, type : {Role}, dutch_prefLabel : {NaN, Koopman},
     definition : {NaN}]

EventUris == {None, <<>>, BeingDead, ConceptE}

InitEvent ==
    /\ pc = "start"
    /\ loc_df \in SeqUpTo(EventLocRows, MaxLocRows)
    /\ pp_df \in SeqUpTo(EventPpRows, MaxPpRows)
    /\ zot_df = <<>>
    /\ df_columns = StandardColumns
    /\ person = <<>>
    /\ observations = <<>>
    /\ obs_list = <<>>
    /\ enrichment = EmptyEnrichment
    /\ sidebar = None
    /\ all_data = <<>>
    /\ data = <<>>
    /\ session = <<>>
    /\ relation_data = NoRelationData
    /\ ret = NoCall

NextEvent ==
    \/ LoadEnrichment
    \/ RenderSidebar
    \/ \E event_uri \in EventUris : \E original_label \in Fallbacks :
          CallGetEventLabel(event_uri, original_label)

SpecEvent == InitEvent /\ [][NextEvent]_vars

\* C14: get_event_label called with the being-dead event URI returns
\* 'Deceased', for every fallback and whatever the concept map and the
\* location map hold, a different label for that URI included.
C14_BeingDeadIsDeceased ==
    (ret.fn = "get_event_label" /\ ret.args[1] = BeingDead) => ret.value = Deceased

\* The call was made while the concept map held another label for the URI
\* and the location map a label for it too.
C14_Witness ==
    /\ ret.fn = "get_event_label"
    /\ ret.args[1] = BeingDead
    /\ ret.args[2] = Fb
    /\ DictHas(enrichment.poolparty, BeingDead)
    /\ DictGet(enrichment.poolparty, BeingDead).label = Koopman
    /\ DictHas(enrichment.locations, BeingDead)
    /\ ret.value = Deceased

---------------------------------------------------------------------------
(* Letter case in the lookups of get_enriched_label *)

\* a and b are the same string up to the case of their letters.
EqualUpToCase(a, b) ==
    /\ IsStr(a) /\ IsStr(b)
    /\ Len(a) = Len(b)
    /\ \A i \in 1..Len(a) : UpperChar(a[i]) = UpperChar(b[i])

\* The URIs of the rows of the location table that are stored in the map.
StoredLocationUris == {loc_df[i].location_uri : i \in {j \in 1..Len(loc_df) : notna(loc_df[j].location_uri)}}

\* C15: location lookups are case-insensitive: for a location row stored
\* under URI u, get_enriched_label(v, f) returns what get_enriched_label(u, f)
\* returns, for every v that equals u up to letter case.
C15_LocationLookupIgnoresCase ==
    (ret.fn = "get_enriched_label" /\ pc = "search") =>
        \A u \in StoredLocationUris :
            EqualUpToCase(ret.args[1], u) =>
                ret.value = PageGetEnrichedLabel(<<u, ret.args[2]>>)

\* A lookup by a URI that differs from the stored one in letter case and
\* from its lowercased form too, and that returned the row's label.
C15_Witness ==
    /\ ret.fn = "get_enriched_label"
    /\ LocK \in StoredLocationUris
    /\ ret.args[1] = Upper(LocK)
    /\ ret.args[2] = Fb
    /\ ret.value = Kochi

\* The keys of the concept map that differ from uri in letter case only.
ConceptKeysInOtherCase(uri) ==
    {k \in DictKeys(enrichment.poolparty) : k # uri /\ EqualUpToCase(uri, k)}

\* C16: concept lookups are case-sensitive: when a URI differs only in
\* letter case from a stored concept key and is a key of no map itself,
\* get_enriched_label returns the fallback, not the stored concept label.
C16_ConceptLookupIsCaseSensitive ==
    (/\ ret.fn = "get_enriched_label"
     /\ IsStr(ret.args[1])
     /\ ConceptKeysInOtherCase(ret.args[1]) # {}
     /\ ret.args[1] \notin DictKeys(enrichment.poolparty)
     /\ Lower(ret.args[1]) \notin DictKeys(enrichment.locations))
        => /\ ret.value = ret.args[2]
           /\ \A k \in ConceptKeysInOtherCase(ret.args[1]) :
                 Truthy(DictGet(enrichment.poolparty, k).label) =>
                     ret.value # DictGet(enrichment.poolparty, k).label

\* The lowercased form of a stored concept key that has a label, looked up
\* with the fallback '' while the location map is empty.
C16_Witness ==
    /\ ret.fn = "get_enriched_label"
    /\ ret.args[1] = Lower(ConceptE)
    /\ ret.args[2] = <<>>
    /\ DictHas(enrichment.poolparty, ConceptE)
    /\ DictGet(enrichment.poolparty, ConceptE).label = Koopman
    /\ enrichment.locations = <<>>
    /\ ret.value = <<>>

\* C17: get_enriched_label called with an empty or absent (None) uri
\* returns the fallback unchanged and raises nothing.
C17_EmptyUriGivesFallback ==
    (ret.fn = "get_enriched_label" /\ ret.args[1] \in {None, <<>>}) =>
        /\ ~IsException(ret.value)
        /\ ret.value = ret.args[2]

---------------------------------------------------------------------------
(* The citation of a source string *)

CallGetBetterSource(source_string) ==
    /\ pc = "search"
    /\ ret' = [fn |-> "get_better_source", args |-> <<source_string>>,
               value |-> get_better_source(source_string)]
    /\ UNCHANGED <<pc, person, observations, obs_list, loc_df, pp_df, zot_df, df_columns,
                   enrichment, sidebar, all_data, relation_data, data, session>>

See == <<"s","e","e"," ">>

\* Source strings: none, empty, a URI of the table as given and in upper
\* case, a URI inside a longer text (as given and in upper case), the
\* Zotero prefix alone and an archive reference.
SourceStrings ==
    {None, <<>>, ZotA, Upper(ZotA), See \o ZotA, Upper(See \o ZotB), Zot, SrcA}

InitBetterSource == InitCitation

NextBetterSource ==
    \/ LoadEnrichment
    \/ RenderSidebar
    \/ \E source_string \in SourceStrings : CallGetBetterSource(source_string)

SpecBetterSource == InitBetterSource /\ [][NextBetterSource]_vars

\* The keys of the citation map that occur in s, letter case ignored.
ContainedKeys(s) ==
    {k \in DictKeys(enrichment.zotero) : Contains(Lower(s), Lower(k))}

\* C18: get_better_source returns an empty input unchanged; otherwise the
\* citation under the key equal to the input; failing that, the citation
\* under the lowercased input; failing that, and only when the input
\* contains 'zotero.org', the citation of a key contained in the input;
\* and the input unchanged when none of these succeeds. The containment
\* tests ignore letter case.
C18_BetterSourceOrder ==
    ret.fn = "get_better_source" =>
        LET s == ret.args[1]
            zotero_data == enrichment.zotero
        IN IF ~Truthy(s) THEN ret.value = s
           ELSE IF s \in DictKeys(zotero_data) THEN ret.value = DictGet(zotero_data, s)
           ELSE IF Lower(s) \in DictKeys(zotero_data)
           THEN ret.value = DictGet(zotero_data, Lower(s))
           ELSE IF Contains(Lower(s), ZoteroOrg) /\ ContainedKeys(s) # {}
           THEN ret.value \in {DictGet(zotero_data, k) : k \in ContainedKeys(s)}
           ELSE ret.value = s

\* A source that is no key, in either case, and embeds a URI of the table:
\* the scan found the citation.
C18_Witness ==
    /\ ret.fn = "get_better_source"
    /\ ret.args[1] = See \o ZotA
    /\ DictHas(enrichment.zotero, ZotA)
    /\ DictGet(enrichment.zotero, ZotA) = Ref1
    /\ ret.value = Ref1

---------------------------------------------------------------------------
(* Tables that lack a column *)

\* The tables whose header lacks one of the columns the loops read.
IncompleteColumns ==
    [loc : {Range(LocationColumns), Range(LocationColumns) \ {"location_uri"},
            Range(LocationColumns) \ {"label"}},
     pp : {Range(PoolpartyColumns), Range(PoolpartyColumns) \ {"uri"}},
     zot : {Range(ZoteroColumns)}]

\* The cells a column can hold.
CellsOf(column) ==
    CASE column = "location_uri" -> {NaN, LocK}
      [] column = "label" -> {Kochi}
      [] column = "latitude" -> {Lat}
      [] column = "longitude" -> {Lng}
      [] column = "uri" -> {NaN, ConceptE}
      [] column = "type" -> {Role}
      [] column = "dutch_prefLabel" -> {Koopman}
      [] column = "definition" -> {NaN}

\* The rows of a data frame with the given columns.
RowsOf(columns) ==
    {row \in [columns -> UNION {CellsOf(c) : c \in columns}] :
        \A c \in columns : row[c] \in CellsOf(c)}

InitSchema ==
    /\ pc = "start"
    /\ df_columns \in IncompleteColumns
    /\ loc_df \in SeqUpTo(RowsOf(df_columns.loc), MaxLocRows)
    /\ pp_df \in SeqUpTo(RowsOf(df_columns.pp), MaxPpRows)
    /\ zot_df = <<>>
    /\ person = <<>>
    /\ observations = <<>>
    /\ obs_list = <<>>
    /\ enrichment = EmptyEnrichment
    /\ sidebar = None
    /\ all_data = <<>>
    /\ data = <<>>
    /\ session = <<>>
    /\ relation_data = NoRelationData
    /\ ret = NoCall

NextSchema == LoadEnrichment \/ LoadEnrichmentRaises \/ RenderSidebar

SpecSchema == InitSchema /\ [][NextSchema]_vars

\* The columns a table lacks among those its loop reads.
MissingColumns ==
    [loc |-> Range(LocationColumns) \ df_columns.loc,
     pp |-> Range(PoolpartyColumns) \ df_columns.pp,
     zot |-> Range(ZoteroColumns) \ df_columns.zot]

\* C19: building the enrichment index from a table that lacks a required
\* column ends in an error that names a missing column and never yields an
\* index, for every number of rows of the table, zero included.
C19_MissingColumnRaises ==
    ((\E t \in DOMAIN MissingColumns : MissingColumns[t] # {}) /\ pc # "start") =>
        /\ pc = "load_raised"
        /\ \E t \in DOMAIN MissingColumns : \E c \in MissingColumns[t] :
              ret.value = KeyError(c)

---------------------------------------------------------------------------
(* The primary display name of a cluster *)

IndexError == <<"IndexError">>

\* Person_Details.py lines 90-93: person.get('appellations') is falsy for a
\* missing key and for an empty list.
PagePrimaryName(p) ==
    IF "appellations" \in DOMAIN p /\ Len(p.appellations) > 0
    THEN Get(p.appellations[1], "appellation", Unknown)
    ELSE Unknown

\* pages/👤_Person_Details.py line 16: person['appellations'][0]['appellation'].
PageTitleName(p) ==
    IF "appellations" \notin DOMAIN p THEN KeyError("appellations")
    ELSE IF Len(p.appellations) = 0 THEN IndexError
    ELSE IF "appellation" \notin DOMAIN p.appellations[1] THEN KeyError("appellation")
    ELSE p.appellations[1].appellation

\* Search.py line 224: the name of a search result.
ShowResultName ==
    /\ pc = "name"
    /\ ret' = [fn |-> "get_primary_name", args |-> <<>>, value |-> get_primary_name(person)]
    /\ UNCHANGED <<pc, person, observations, obs_list, loc_df, pp_df, zot_df, df_columns,
                   enrichment, sidebar, all_data, relation_data, data, session>>

\* Person_Details.py lines 90-93: the name the page shows.
ShowPrimaryName ==
    /\ pc = "name"
    /\ ret' = [fn |-> "primary_name", args |-> <<>>, value |-> PagePrimaryName(person)]
    /\ UNCHANGED <<pc, person, observations, obs_list, loc_df, pp_df, zot_df, df_columns,
                   enrichment, sidebar, all_data, relation_data, data, session>>

\* pages/👤_Person_Details.py lines 13-16: the title of the page.
ShowPageTitle ==
    /\ pc = "name"
    /\ ret' = [fn |-> "page_title", args |-> <<>>, value |-> PageTitleName(person)]
    /\ UNCHANGED <<pc, person, observations, obs_list, loc_df, pp_df, zot_df, df_columns,
                   enrichment, sidebar, all_data, relation_data, data, session>>

MaxApps == 2

\* Appellation records with or without the appellation field.
AppellationRecords ==
    {a @@ t : a \in {<<>>, [appellation |-> Jan], [appellation |-> Piet]},
              t \in {<<>>, [appellationType |-> Alias]}}

\* Clusters without the appellations key, and with a list of up to MaxApps
\* appellation records.
NamedClusters ==
    {[activeAs |-> <<>>]}
      \cup {[activeAs |-> <<>>, appellations |-> l] : l \in SeqUpTo(AppellationRecords, MaxApps)}

InitName ==
    /\ pc = "name"
    /\ person \in NamedClusters
    /\ df_columns = StandardColumns
    /\ loc_df = <<>>
    /\ pp_df = <<>>
    /\ zot_df = <<>>
    /\ observations = <<>>
    /\ obs_list = <<>>
    /\ enrichment = EmptyEnrichment
    /\ sidebar = None
    /\ all_data = <<>>
    /\ data = <<>>
    /\ session = <<>>
    /\ relation_data = NoRelationData
    /\ ret = NoCall

NextName == ShowResultName \/ ShowPrimaryName \/ ShowPageTitle

SpecName == InitName /\ [][NextName]_vars

\* C20: on every page that shows it, the primary display name of a cluster
\* is the appellation field of its first appellation record and 'Unknown'
\* when the cluster has no appellation record, and computing it raises
\* nothing.
C20_PrimaryNameNeverRaises ==
    ret.fn \in {"get_primary_name", "primary_name", "page_title"} =>
        LET appellations == Get(person, "appellations", <<>>)
        IN /\ ret.value # IndexError
           /\ ret.value[1] # "KeyError"
           /\ appellations = <<>> => ret.value = Unknown
           /\ (appellations # <<>> /\ "appellation" \in DOMAIN appellations[1]) =>
                 ret.value = appellations[1].appellation

---------------------------------------------------------------------------
(* The coordinates of the location index *)

\* Person_Details.py lines 40-48. The pair (lat, lng) is the sequence of
\* the two numbers.
get_location_coords(uri) ==
    IF ~IsStr(uri) THEN AttributeError
    ELSE IF ~DictHas(enrichment.locations, Lower(uri)) THEN None
    ELSE LET location_data == DictGet(enrichment.locations, Lower(uri))
             lat == Get(location_data, "latitude", None)
             lng == Get(location_data, "longitude", None)
         IN IF Truthy(lat) /\ Truthy(lng) THEN lat \o lng ELSE None

CallGetLocationCoords(uri) ==
    /\ pc = "search"
    /\ ret' = [fn |-> "get_location_coords", args |-> <<uri>>,
               value |-> get_location_coords(uri)]
    /\ UNCHANGED <<pc, person, observations, obs_list, loc_df, pp_df, zot_df, df_columns,
                   enrichment, sidebar, all_data, relation_data, data, session>>

\* Rows whose URI is empty or one of two spellings of a URI, and whose
\* coordinates are empty, 0 or another number.
CoordRows ==
    [location_uri : {NaN, LocK, Lower(LocK)}, label : {Kochi},
     latitude : {NaN, Zero, Lat}, longitude : {NaN, Zero, Lng}]

CoordUris == {LocK, Upper(LocK), COCHIN}

InitCoords ==
    /\ pc = "start"
    /\ loc_df \in SeqUpTo(CoordRows, MaxLocRows)
    /\ pp_df = <<>>
    /\ zot_df = <<>>
    /\ df_columns = StandardColumns
    /\ person = <<>>
    /\ observations = <<>>
    /\ obs_list = <<>>
    /\ enrichment = EmptyEnrichment
    /\ sidebar = None
    /\ all_data = <<>>
    /\ data = <<>>
    /\ session = <<>>
    /\ relation_data = NoRelationData
    /\ ret = NoCall

NextCoords ==
    \/ LoadEnrichment
    \/ RenderSidebar
    \/ \E uri \in CoordUris : CallGetLocationCoords(uri)

SpecCoords == InitCoords /\ [][NextCoords]_vars

\* The rows of the location table whose URI is not missing.
LocationUriRows == {i \in 1..Len(loc_df) : notna(loc_df[i].location_uri)}

\* The last row stored under the lowercased URI key.
LastRowOf(key) ==
    loc_df[CHOOSE i \in LocationUriRows :
              /\ Lower(loc_df[i].location_uri) = key
              /\ \A j \in LocationUriRows :
                    Lower(loc_df[j].location_uri) = key => j <= i]

\* C21: the location index has one entry per distinct lowercased URI of
\* the rows with a non-missing URI and none for the other rows; a missing
\* latitude or longitude is stored as None and never as 0.
C21_LocationIndexEntries ==
    Loaded =>
        LET locations == enrichment.locations
            uris == {Lower(loc_df[i].location_uri) : i \in LocationUriRows}
        IN /\ DictKeys(locations) = uris
           /\ Len(locations) = Cardinality(uris)
           /\ \A k \in uris :
                 /\ ~notna(LastRowOf(k).latitude) =>
                       DictGet(locations, k).latitude = None
                 /\ ~notna(LastRowOf(k).longitude) =>
                       DictGet(locations, k).longitude = None
                 /\ notna(LastRowOf(k).latitude) =>
                       DictGet(locations, k).latitude = LastRowOf(k).latitude
                 /\ notna(LastRowOf(k).longitude) =>
                       DictGet(locations, k).longitude = LastRowOf(k).longitude

\* Two rows spell one URI in two cases, a third cell is missing: one entry,
\* with None for the missing coordinate.
C21_Witness ==
    /\ Loaded
    /\ Len(loc_df) = 2
    /\ loc_df[1].location_uri = LocK
    /\ loc_df[2].location_uri = Lower(LocK)
    /\ loc_df[2].latitude = NaN
    /\ loc_df[2].longitude = Lng
    /\ Len(enrichment.locations) = 1
    /\ DictGet(enrichment.locations, Lower(LocK)).latitude = None

\* C28: get_location_coords returns the pair (latitude, longitude) of a
\* location entry whenever the entry holds both coordinates, a coordinate
\* that is 0 included, and returns None only when the URI is unknown or a
\* coordinate is absent.
C28_CoordsWheneverPresent ==
    (ret.fn = "get_location_coords" /\ IsStr(ret.args[1])) =>
        LET key == Lower(ret.args[1])
            known == DictHas(enrichment.locations, key)
            entry == DictGet(enrichment.locations, key)
        IN /\ (known /\ entry.latitude # None /\ entry.longitude # None) =>
                 ret.value = entry.latitude \o entry.longitude
           /\ ret.value = None =>
                 (~known \/ entry.latitude = None \/ entry.longitude = None)

---------------------------------------------------------------------------
(* Building the enrichment index again *)

\* Streamlit runs Search.py again from its first line after an interaction
\* with a widget.
RerunSearch ==
    /\ pc = "search"
    /\ pc' = "rerun"
    /\ UNCHANGED <<person, observations, obs_list, loc_df, pp_df, zot_df, df_columns,
                   enrichment, sidebar, all_data, relation_data, ret, data, session>>

\* Search.py line 175 in a run that follows another: the index is built
\* from the same files.
ReloadEnrichment ==
    /\ pc = "rerun"
    /\ LoadError(loc_df, pp_df, zot_df) = None
    /\ enrichment' = load_enrichment_data(loc_df, pp_df, zot_df)
    /\ pc' = "reloaded"
    /\ UNCHANGED <<person, observations, obs_list, loc_df, pp_df, zot_df, df_columns,
                   sidebar, all_data, relation_data, ret, data, session>>

\* Tables whose rows spell one URI in two cases, with and without a label
\* or a reference.
RebuildLocRows ==
    {[location_uri |-> LocK, label |-> Kochi, latitude |-> Lat, longitude |-> Lng],
     [location_uri |-> Lower(LocK), label |-> NaN, latitude |-> NaN, longitude |-> Lng]}

RebuildZotRows ==
    {[zotero_uri |-> ZotA, source_reference |-> Ref1],
     [zotero_uri |-> ZotLowerA, source_reference |-> NaN]}

InitRebuild ==
    /\ pc = "start"
    /\ loc_df \in SeqUpTo(RebuildLocRows, MaxLocRows)
    /\ pp_df \in SeqUpTo(PpRows, MaxPpRows)
    /\ zot_df \in SeqUpTo(RebuildZotRows, MaxZotRows)
    /\ df_columns = StandardColumns
    /\ person = <<>>
    /\ observations = <<>>
    /\ obs_list = <<>>
    /\ enrichment = EmptyEnrichment
    /\ sidebar = None
    /\ all_data = <<>>
    /\ data = <<>>
    /\ session = <<>>
    /\ relation_data = NoRelationData
    /\ ret = NoCall

NextRebuild == LoadEnrichment \/ RenderSidebar \/ RerunSearch \/ ReloadEnrichment

SpecRebuild == InitRebuild /\ [][NextRebuild]_vars

---------------------------------------------------------------------------
(* Search.py: search_in_field *)

\* The outcomes of a function that returns a bool.
True == <<"True">>
False == <<"False">>

\* The keys of a record of the dataset, as text.
KeyText(key) ==
    CASE key = "location" -> <<"l","o","c","a","t","i","o","n">>
      [] key = "locationRelation" ->
            <<"l","o","c","a","t","i","o","n","R","e","l","a","t","i","o","n">>
      [] key = "activity" -> <<"a","c","t","i","v","i","t","y">>
      [] key = "original_location_description" ->
            <<"o","r","i","g","i","n","a","l","_","l","o","c","a","t","i","o","n","_",
              "d","e","s","c","r","i","p","t","i","o","n">>
      [] key = "original_label" ->
            <<"o","r","i","g","i","n","a","l","_","l","a","b","e","l">>
      [] key = "appellation" -> <<"a","p","p","e","l","l","a","t","i","o","n">>
      [] key = "observation_id" ->
            <<"o","b","s","e","r","v","a","t","i","o","n","_","i","d">>
      [] key = "annotationDate" ->
            <<"a","n","n","o","t","a","t","i","o","n","D","a","t","e">>

\* str(v) for a value of a record: a str is quoted as it is, None is 'None'.
ValueText(v) == IF v = None THEN <<"N","o","n","e">> ELSE v

\* Line 152: search_lower in str(item).lower(). str(item) is
\* {'key': 'value', ...}; a term of letters cannot reach over a quote, so
\* it occurs in str(item) exactly when it occurs in a key or in a value.
InItemText(item, search_lower) ==
    \E key \in DOMAIN item :
        \/ Contains(Lower(KeyText(key)), search_lower)
        \/ Contains(Lower(ValueText(item[key])), search_lower)

\* search_lower in enriched_label.lower(): a label that is no str (an
\* empty cell of the table) has no method lower.
InLabel(enriched_label, search_lower) ==
    IF IsException(enriched_label) THEN enriched_label
    ELSE IF ~IsStr(enriched_label) THEN AttributeError
    ELSE IF Contains(Lower(enriched_label), search_lower) THEN True
    ELSE False

\* Lines 157-162: one of the three URI keys of an item.
UriKeyStep(item, key, search_lower, enrichment_data) ==
    IF key \in DOMAIN item
    THEN InLabel(get_enriched_label(item[key], enrichment_data, <<>>), search_lower)
    ELSE False

\* Lines 164-170: the original description, upper-cased, as a key of the
\* location map.
DescriptionStep(item, search_lower, enrichment_data) ==
    IF "original_location_description" \in DOMAIN item
    THEN LET loc_desc == item.original_location_description
         IN IF IsStr(loc_desc) /\ loc_desc # None
               /\ DictHas(enrichment_data.locations, Upper(loc_desc))
            THEN InLabel(Get(DictGet(enrichment_data.locations, Upper(loc_desc)),
                             "label", <<>>), search_lower)
            ELSE False
    ELSE False

\* Lines 151-170: the tests made for one item, in the order of the code.
ItemSteps(item, search_lower, enrichment_data) ==
    << IF InItemText(item, search_lower) THEN True ELSE False,
       UriKeyStep(item, "activity", search_lower, enrichment_data),
       UriKeyStep(item, "locationRelation", search_lower, enrichment_data),
       UriKeyStep(item, "location", search_lower, enrichment_data),
       DescriptionStep(item, search_lower, enrichment_data) >>

\* The first test that returns or raises decides.
RECURSIVE FirstDecisive(_)
FirstDecisive(steps) ==
    IF steps = <<>> THEN False
    ELSE IF steps[1] # False THEN steps[1]
    ELSE FirstDecisive(Tail(steps))

\* Search.py lines 143-171, called with enrichment data as the search
\* page calls it (lines 208-209).
search_in_field(field_list, search_term, enrichment_data) ==
    IF search_term = <<>> THEN True
    ELSE FirstDecisive(Flatten([i \in 1..Len(field_list) |->
             ItemSteps(field_list[i], Lower(search_term), enrichment_data)]))

CallSearchInField(field_list, search_term) ==
    /\ pc = "search"
    /\ ret' = [fn |-> "search_in_field", args |-> <<field_list, search_term>>,
               value |-> search_in_field(field_list, search_term, enrichment)]
    /\ UNCHANGED <<pc, person, observations, obs_list, loc_df, pp_df, zot_df, df_columns,
                   enrichment, sidebar, all_data, relation_data, data, session>>

MaxItems == 2

FieldLocRows ==
    [location_uri : {LocK, COCHIN}, label : {NaN, Kochi},
     latitude : {Lat}, longitude : {Lng}]

FieldPpRows ==
    << [uri |-> ConceptE, type |-> Role, dutch_prefLabel |-> Koopman, definition |-> NaN] >>

FieldRecords ==
    {l @@ d : l \in {<<>>, [activity |-> ConceptE]},
              d \in {<<>>, [original_location_description |-> Cochin]}}

SearchTerms == {<<>>, Lower(Kochi), Upper(Koopman), <<"z","z">>}

InitField ==
    /\ pc = "start"
    /\ loc_df \in SeqUpTo(FieldLocRows, MaxLocRows)
    /\ pp_df = FieldPpRows
    /\ zot_df = <<>>
    /\ df_columns = StandardColumns
    /\ person = <<>>
    /\ observations = <<>>
    /\ obs_list = <<>>
    /\ enrichment = EmptyEnrichment
    /\ sidebar = None
    /\ all_data = <<>>
    /\ data = <<>>
    /\ session = <<>>
    /\ relation_data = NoRelationData
    /\ ret = NoCall

NextField ==
    \/ LoadEnrichment
    \/ RenderSidebar
    \/ \E field_list \in SeqUpTo(FieldRecords, MaxItems) :
         \E search_term \in SearchTerms : CallSearchInField(field_list, search_term)

SpecField == InitField /\ [][NextField]_vars

\* The items of a call whose original description, upper-cased, is the URI
\* of a row of the location table, with the search term in the label of
\* the entry built from that row.
DescribedByRow(item, search_term) ==
    /\ "original_location_description" \in DOMAIN item
    /\ \E i \in 1..Len(loc_df) :
          loc_df[i].location_uri = Upper(item.original_location_description)
    /\ DictHas(enrichment.locations, Lower(item.original_location_description))
    /\ LET label == DictGet(enrichment.locations,
                            Lower(item.original_location_description)).label
       IN IsStr(label) /\ Contains(Lower(label), Lower(search_term))

\* C24: search_in_field returns True when the search term occurs in the
\* label of the location entry built from the row whose URI is an item's
\* original_location_description upper-cased.
C24_DescriptionLabelMatches ==
    ret.fn = "search_in_field" =>
        \A i \in 1..Len(ret.args[1]) :
            DescribedByRow(ret.args[1][i], ret.args[2]) => ret.value = True

---------------------------------------------------------------------------
(* A source string that embeds a URI of which another URI is a part *)

ZotAB == ZotA \o <<"B">>

\* Rows of zotero_uris.csv: the URI of one item is the beginning of the
\* URI of another.
EmbeddedZotRows == [zotero_uri : {ZotA, ZotAB, ZotB}, source_reference : {Ref1, Ref2}]

EmbeddedSources ==
    {See \o ZotA, See \o ZotAB, Upper(See) \o ZotAB, See \o ZotB, ZotAB, SrcA}

InitEmbedded ==
    /\ pc = "start"
    /\ loc_df = <<>>
    /\ pp_df = <<>>
    /\ zot_df \in SeqUpTo(EmbeddedZotRows, MaxZotRows)
    /\ df_columns = StandardColumns
    /\ person = <<>>
    /\ observations = <<>>
    /\ obs_list = <<>>
    /\ enrichment = EmptyEnrichment
    /\ sidebar = None
    /\ all_data = <<>>
    /\ data = <<>>
    /\ session = <<>>
    /\ relation_data = NoRelationData
    /\ ret = NoCall

NextEmbedded ==
    \/ LoadEnrichment
    \/ RenderSidebar
    \/ \E source_string \in EmbeddedSources : CallGetBetterSource(source_string)

SpecEmbedded == InitEmbedded /\ [][NextEmbedded]_vars

\* s is no key of the citation map and embeds the URI U of a row inside
\* longer text; every other URI of the table that occurs in s is a proper
\* part of U.
EmbedsOneFullUri(s, U) ==
    /\ IsStr(s)
    /\ ~DictHas(enrichment.zotero, s)
    /\ Len(s) > Len(U)
    /\ Contains(s, U)
    /\ \A j \in UriRows :
          LET V == zot_df[j].zotero_uri
          IN (V # U /\ Contains(Lower(s), Lower(V))) => (Len(V) < Len(U) /\ Contains(U, V))

\* C29: for a source string that is no key of the citation map and embeds
\* exactly one full URI U of the table inside longer text,
\* get_better_source returns the citation of U, also when another key of
\* the map is a proper part of U.
C29_EmbeddedUriResolved ==
    ret.fn = "get_better_source" =>
        \A i \in UriRows :
            EmbedsOneFullUri(ret.args[1], zot_df[i].zotero_uri)
                => ret.value = DictGet(enrichment.zotero, zot_df[i].zotero_uri)

---------------------------------------------------------------------------
(* search_functions.py: the searchable view of a cluster and the search *)

ValueError == <<"ValueError">>
All == <<"A","l","l">>

\* Lines 9-23, for a collection keyed by cluster id: the clusters that
\* have the key 'persons', in the order of the collection.
load_multiple_persons(dataset) ==
    SelectSeq(dataset, LAMBDA entry : "persons" \in DOMAIN entry.v)

\* The truthy values of one field in a list of records.
FieldValues(records, field) ==
    {records[i][field] : i \in {j \in 1..Len(records) :
                                   Truthy(Get(records[j], field, None))}}

\* Lines 68-73: the original_label of the first identity that has one.
RECURSIVE FirstLabel(_)
FirstLabel(identities) ==
    IF identities = <<>> THEN None
    ELSE IF Truthy(Get(identities[1], "original_label", None))
    THEN identities[1].original_label
    ELSE FirstLabel(Tail(identities))

\* An extraction that keeps the letter case of the values.
extract_searchable_data_AsGiven(cluster_id, cluster_data) ==
    LET appellations == Get(cluster_data, "appellations", <<>>)
        activeAs == Get(cluster_data, "activeAs", <<>>)
        locationRelations == Get(cluster_data, "locationRelations", <<>>)
    IN [cluster_id |-> cluster_id,
        names |-> FieldValues(appellations, "appellation"),
        activities |-> FieldValues(activeAs, "original_label"),
        locations |-> FieldValues(locationRelations, "original_location_description"),
        employers |-> FieldValues(activeAs, "employer"),
        dates |-> FieldValues(appellations, "annotationDate")
                    \cup FieldValues(activeAs, "annotationDate")
                    \cup FieldValues(activeAs, "startDate"),
        events |-> {Lower(v) : v \in FieldValues(Get(cluster_data, "events", <<>>),
                                                "original_label")},
        gender |-> FirstLabel(Get(cluster_data, "identities", <<>>)),
        raw_data |-> cluster_data]

\* Lines 25-85. list(set(values)) is a list without repetitions in no
\* particular order; the search only asks for membership, so it is kept as
\* the set.
extract_searchable_data(cluster_id, cluster_data) ==
    LET appellations == Get(cluster_data, "appellations", <<>>)
        activeAs == Get(cluster_data, "activeAs", <<>>)
        locationRelations == Get(cluster_data, "locationRelations", <<>>)
    IN [cluster_id |-> cluster_id,
        names |-> {Lower(v) : v \in FieldValues(appellations, "appellation")},
        activities |-> {Lower(v) : v \in FieldValues(activeAs, "original_label")},
        locations |-> {Lower(v) : v \in FieldValues(locationRelations,
                                                    "original_location_description")},
        employers |-> {Lower(v) : v \in FieldValues(activeAs, "employer")},
        dates |-> FieldValues(appellations, "annotationDate")
                    \cup FieldValues(activeAs, "annotationDate")
                    \cup FieldValues(activeAs, "startDate"),
        events |-> {Lower(v) : v \in FieldValues(Get(cluster_data, "events", <<>>),
                                                "original_label")},
        gender |-> FirstLabel(Get(cluster_data, "identities", <<>>)),
        raw_data |-> cluster_data]

\* Lines 260-268: persons_data of the search interface.
PersonsData(dataset) ==
    LET persons_list == load_multiple_persons(dataset)
    IN [i \in 1..Len(persons_list) |->
           extract_searchable_data(persons_list[i].k, persons_list[i].v)]

\* int(s) for a str of digits; a str with another character raises
\* ValueError.
IsNumeral(s) == s # <<>> /\ \A i \in 1..Len(s) : IsDigit(s[i])

RECURSIVE IntOf(_)
IntOf(s) ==
    IF s = <<>> THEN 0
    ELSE 10 * IntOf(SubSeq(s, 1, Len(s) - 1)) + (Ord(s[Len(s)]) - Ord("0"))

\* Lines 131-133: re.search(r'\d{4}', str(date_str)), the leftmost four
\* digits in a row, as an int.
HasYear(date_str) ==
    \E i \in 1..Len(date_str) :
        i + 3 <= Len(date_str) /\ \A j \in i..(i + 3) : IsDigit(date_str[j])

YearOf(date_str) ==
    LET matches == {i \in 1..Len(date_str) :
                       i + 3 <= Len(date_str) /\ \A j \in i..(i + 3) : IsDigit(date_str[j])}
        first == CHOOSE i \in matches : \A j \in matches : i <= j
    IN IntOf(SubSeq(date_str, first, first + 3))

Min(S) == CHOOSE x \in S : \A y \in S : x <= y
Max(S) == CHOOSE x \in S : \A y \in S : x >= y

\* Lines 103, 109, 115, 121: any(query.lower() in value for value in values).
AnyContains(values, query) == \E v \in values : Contains(v, Lower(query))

\* A date filter that compares date_from with the earliest year.
DateOutcome_EarliestYear(p, date_from, date_to) ==
    LET person_dates == {YearOf(d) : d \in {e \in p.dates : Truthy(e) /\ HasYear(e)}}
    IN IF person_dates # {}
       THEN IF Truthy(date_from) /\ ~IsNumeral(date_from) THEN ValueError
            ELSE IF Truthy(date_to) /\ ~IsNumeral(date_to) THEN ValueError
            ELSE IF Truthy(date_from) /\ Min(person_dates) < IntOf(date_from) THEN False
            ELSE IF Truthy(date_to) /\ Min(person_dates) > IntOf(date_to) THEN False
            ELSE True
       ELSE False

\* Lines 127-145, entered with a date filter set.
DateOutcome(p, date_from, date_to) ==
    LET person_dates == {YearOf(d) : d \in {e \in p.dates : Truthy(e) /\ HasYear(e)}}
    IN IF person_dates # {}
       THEN IF Truthy(date_from) /\ ~IsNumeral(date_from) THEN ValueError
            ELSE IF Truthy(date_to) /\ ~IsNumeral(date_to) THEN ValueError
            ELSE IF Truthy(date_from) /\ Max(person_dates) < IntOf(date_from) THEN False
            ELSE IF Truthy(date_to) /\ Min(person_dates) > IntOf(date_to) THEN False
            ELSE True
       ELSE False

\* Lines 148-150.
GenderOutcome(p, gender_filter) ==
    IF p.gender # Lower(gender_filter) THEN False ELSE True

\* Lines 99-153 for one person: match after the filters, or the exception
\* int() raises.
PersonOutcome(p, name_query, location_query, activity_query, employer_query, date_from, date_to, gender_filter) ==
    LET text_match ==
            /\ Truthy(name_query) => AnyContains(p.names, name_query)
            /\ Truthy(location_query) => AnyContains(p.locations, location_query)
            /\ Truthy(activity_query) => AnyContains(p.activities, activity_query)
            /\ Truthy(employer_query) => AnyContains(p.employers, employer_query)
        date_match ==
            IF Truthy(date_from) \/ Truthy(date_to)
            THEN DateOutcome(p, date_from, date_to)
            ELSE True
    IN IF ~text_match THEN False
       ELSE IF date_match # True THEN date_match
       ELSE IF Truthy(gender_filter) /\ gender_filter # All
       THEN GenderOutcome(p, gender_filter)
       ELSE True

\* Lines 87-155: the persons that match, in the order of persons_data; an
\* exception raised for one person ends the call.
search_persons(persons_data, name_query, location_query, activity_query, employer_query, date_from, date_to, gender_filter) ==
    LET outcome(p) ==
            PersonOutcome(p, name_query, location_query, activity_query,
                          employer_query, date_from, date_to, gender_filter)
    IN IF \E i \in 1..Len(persons_data) : outcome(persons_data[i]) = ValueError
       THEN ValueError
       ELSE SelectSeq(persons_data, LAMBDA p : outcome(p) = True)

\* Lines 339-352: the search interface runs the search over the loaded
\* dataset and shows the results.
SearchPersons(name_query, location_query, activity_query, employer_query, date_from, date_to, gender_filter) ==
    /\ pc = "interface"
    /\ ret' = [fn |-> "search_persons",
               args |-> <<PersonsData(data), name_query, location_query, activity_query,
                          employer_query, date_from, date_to, gender_filter>>,
               value |-> search_persons(PersonsData(data), name_query, location_query,
                                        activity_query, employer_query, date_from,
                                        date_to, gender_filter)]
    /\ pc' = "results"
    /\ UNCHANGED <<person, observations, obs_list, loc_df, pp_df, zot_df, df_columns,
                   enrichment, sidebar, all_data, relation_data, data, session>>

MaxPersons == 2

\* The keys of the collection.
ClusterIds == [i \in 1..(MaxPersons + 1) |-> <<"p", Ascii[Ord("0") + i]>>]

\* The collections of up to MaxPersons clusters.
Collections(clusters) ==
    UNION {{[i \in 1..n |-> [k |-> ClusterIds[i], v |-> cs[i]]] : cs \in [1..n -> clusters]}
              : n \in 0..MaxPersons}

InitInterface(clusters) ==
    /\ pc = "interface"
    /\ data \in Collections(clusters)
    /\ loc_df = <<>>
    /\ pp_df = <<>>
    /\ zot_df = <<>>
    /\ df_columns = StandardColumns
    /\ person = <<>>
    /\ observations = <<>>
    /\ obs_list = <<>>
    /\ enrichment = EmptyEnrichment
    /\ sidebar = None
    /\ all_data = <<>>
    /\ session = <<>>
    /\ relation_data = NoRelationData
    /\ ret = NoCall

VOC == <<"V","O","C">>

\* Clusters with names, an activity with its employer and a location; one
\* entry of the collection is no person cluster.
TextClusters ==
    {[persons |-> <<>>, appellations |-> apps, activeAs |-> acts, locationRelations |-> locs] :
        apps \in {<<>>, <<[appellation |-> Jan]>>,
                  <<[appellation |-> Jan], [appellation |-> Piet]>>},
        acts \in {<<>>, <<[original_label |-> Koopman, employer |-> VOC]>>},
        locs \in {<<>>, <<[original_location_description |-> Cochin]>>}}
      \cup {[appellations |-> <<[appellation |-> Jan]>>]}

NameQueries == {None, <<>>, Lower(Jan), Upper(Piet)}
LocationQueries == {None, <<"O","C","H">>}
ActivityQueries == {None, <<"k","o","o","p">>}
EmployerQueries == {None, Lower(VOC)}

InitText == InitInterface(TextClusters)

NextText ==
    \E name_query \in NameQueries : \E location_query \in LocationQueries :
      \E activity_query \in ActivityQueries : \E employer_query \in EmployerQueries :
        SearchPersons(name_query, location_query, activity_query, employer_query,
                      None, None, None)

SpecText == InitText /\ [][NextText]_vars

\* query is not supplied, or occurs in one of the values of a field of the
\* cluster's records, letter case ignored.
SatisfiesText(cluster, category, field, query) ==
    Truthy(query) =>
        \E v \in FieldValues(Get(cluster, category, <<>>), field) :
            Contains(Upper(v), Upper(query))

SatisfiesTextFilters(p, name_query, location_query, activity_query, employer_query) ==
    /\ SatisfiesText(p.raw_data, "appellations", "appellation", name_query)
    /\ SatisfiesText(p.raw_data, "locationRelations", "original_location_description",
                     location_query)
    /\ SatisfiesText(p.raw_data, "activeAs", "original_label", activity_query)
    /\ SatisfiesText(p.raw_data, "activeAs", "employer", employer_query)

\* C25: search_persons returns, in input order, exactly the persons whose
\* values satisfy every supplied text filter (name, location, activity,
\* employer, each a substring of one of the person's values, letter case
\* ignored): all persons when no filter is supplied, and never a person
\* that is not in the input.
C25_SearchReturnsMatches ==
    (ret.fn = "search_persons" /\ ret.args[6] = None /\ ret.args[7] = None
       /\ ret.args[8] = None) =>
        ret.value = SelectSeq(ret.args[1],
                        LAMBDA p : SatisfiesTextFilters(p, ret.args[2], ret.args[3],
                                                        ret.args[4], ret.args[5]))

\* A search by name and employer over two persons kept the second only.
C25_Witness ==
    /\ ret.fn = "search_persons"
    /\ Len(ret.args[1]) = 2
    /\ ret.args[2] = Upper(Piet)
    /\ ret.args[5] = Lower(VOC)
    /\ Len(ret.value) = 1
    /\ ret.value[1] = ret.args[1][2]

---------------------------------------------------------------------------
(* The date filter of the search *)

Y1694 == <<"1","6","9","4">>
Y1695 == <<"1","6","9","5">>
Y1696 == <<"1","6","9","6">>
Y1699 == <<"1","6","9","9">>
Y1701 == <<"1","7","0","1">>
Day1700 == <<"1","7","0","0","-","0","1","-","0","1">>
Undated == <<"n",".","d",".">>

\* Clusters with a name that may carry an annotation date (a year, a text
\* without a year, the empty str) and an activity that may carry a start
\* date.
DatedClusters ==
    {[persons |-> <<>>, appellations |-> <<[appellation |-> Jan] @@ a>>, activeAs |-> acts] :
        a \in {<<>>} \cup {[annotationDate |-> d] : d \in {Y1695, Undated, <<>>}},
        acts \in {<<>>} \cup {<<[original_label |-> Koopman, startDate |-> d]>> :
                                 d \in {Day1700, Y1695}}}

\* The years typed into the two fields; one entry is no number.
DatesFrom == {None, Y1696, Y1701, <<"x">>}
DatesTo == {None, Y1694, Y1699}

InitDates == InitInterface(DatedClusters)

NextDates ==
    \E date_from \in DatesFrom : \E date_to \in DatesTo :
        SearchPersons(None, None, None, None, date_from, date_to, None)

SpecDates == InitDates /\ [][NextDates]_vars

\* A date filter is set and each bound that is given is a number.
DateFilterSet(date_from, date_to) ==
    /\ Truthy(date_from) \/ Truthy(date_to)
    /\ Truthy(date_from) => IsNumeral(date_from)
    /\ Truthy(date_to) => IsNumeral(date_to)

\* The years of the dates of a person that contain four digits in a row.
YearsOf(p) == {YearOf(d) : d \in {e \in p.dates : HasYear(e)}}

\* One of the person's dates holds a year, and the range of the years
\* overlaps the range of the filter.
OverlapsFilter(p, date_from, date_to) ==
    /\ YearsOf(p) # {}
    /\ Truthy(date_from) => \E y \in YearsOf(p) : y >= IntOf(date_from)
    /\ Truthy(date_to) => \E y \in YearsOf(p) : y <= IntOf(date_to)

---------------------------------------------------------------------------
(* The gender filter of the search *)

Male == <<"M","a","l","e">>
Female == <<"F","e","m","a","l","e">>
Sex == <<"s","e","x">>

\* Clusters without an identity, with one whose label is written in lower
\* case, with a capital or in capitals, and with a first identity that has
\* no label.
GenderClusters ==
    {[persons |-> <<>>, identities |-> ids] :
        ids \in {<<>>, <<[original_label |-> Lower(Male)]>>, <<[original_label |-> Male]>>,
                 <<[original_label |-> Upper(Female)]>>,
                 <<[identityType |-> Sex], [original_label |-> Lower(Female)]>>}}

\* The options of the selectbox; the interface passes None for "All".
GenderFilters == {None, All, Male, Female}

InitGender == InitInterface(GenderClusters)

NextGender ==
    \E gender_filter \in GenderFilters :
        SearchPersons(None, None, None, None, None, None, gender_filter)

SpecGender == InitGender /\ [][NextGender]_vars

\* The recorded gender of the person equals G, letter case ignored.
HasGender(p, G) ==
    LET recorded == FirstLabel(Get(p.raw_data, "identities", <<>>))
    IN recorded # None /\ Upper(recorded) = Upper(G)

\* C30: with a gender filter G other than 'All', search_persons keeps a
\* person exactly when the person's recorded gender (the original_label of
\* the first identity that has one) equals G, letter case ignored.
C30_GenderFilterIgnoresCase ==
    (ret.fn = "search_persons" /\ Truthy(ret.args[8]) /\ ret.args[8] # All) =>
        ret.value = SelectSeq(ret.args[1], LAMBDA p : HasGender(p, ret.args[8]))

---------------------------------------------------------------------------
(* Navigation between the search page and the details page *)

\* Search.py line 207: query.lower() in str(v.get('appellations', '')).lower().
\* The text of a list of records holds a term of letters exactly when the
\* text of one of the records does; without the key the text is ''.
NameMatch(v, query) ==
    ~Truthy(query) \/
        \E i \in 1..Len(Get(v, "appellations", <<>>)) :
            InItemText(v.appellations[i], Lower(query))

\* Lines 208-209: a filter that is set asks search_in_field.
FieldOutcome(v, category, term) ==
    IF ~Truthy(term) THEN True
    ELSE search_in_field(Get(v, category, <<>>), term, enrichment)

\* An exception of search_in_field ends the run of the search page.
SearchRaises(query, adv_loc, adv_role) ==
    \E i \in 1..Len(data) :
        \/ IsException(FieldOutcome(data[i].v, "locationRelations", adv_loc))
        \/ IsException(FieldOutcome(data[i].v, "activeAs", adv_role))

\* Lines 205-212: results, in the order of data.
Results(query, adv_loc, adv_role) ==
    SelectSeq(data, LAMBDA entry :
        /\ NameMatch(entry.v, query)
        /\ FieldOutcome(entry.v, "locationRelations", adv_loc) = True
        /\ FieldOutcome(entry.v, "activeAs", adv_role) = True)

\* Line 218: top_matches = list(results.items())[:3].
TopMatches == 3

\* Lines 229-232 and 250-253: the four keys a selection stores.
Select(p_id, cluster) ==
    [k \in DOMAIN session \cup {"selected_person_id", "selected_person_data",
                                "enrichment_data", "all_data"} |->
        CASE k = "selected_person_id" -> p_id
          [] k = "selected_person_data" -> cluster
          [] k = "enrichment_data" -> enrichment
          [] k = "all_data" -> data
          [] OTHER -> session[k]]

\* Lines 228-233: View Profile of one of the top matches.
ViewProfile(query, adv_loc, adv_role, p_id) ==
    /\ pc = "search"
    /\ data # <<>>
    /\ ~SearchRaises(query, adv_loc, adv_role)
    /\ LET results == Results(query, adv_loc, adv_role)
       IN /\ \E i \in 1..Len(results) : i <= TopMatches /\ results[i].k = p_id
          /\ session' = Select(p_id, DictGet(results, p_id))
    /\ pc' = "page"
    /\ UNCHANGED <<person, observations, obs_list, loc_df, pp_df, zot_df, df_columns,
                   enrichment, sidebar, all_data, relation_data, ret, data>>

\* Lines 242-254: Go to Selected Profile, for the selection of the selectbox.
GoToSelectedProfile(query, adv_loc, adv_role, selection) ==
    /\ pc = "search"
    /\ data # <<>>
    /\ ~SearchRaises(query, adv_loc, adv_role)
    /\ LET results == Results(query, adv_loc, adv_role)
       IN /\ DictHas(results, selection)
          /\ Truthy(selection)
          /\ session' = Select(selection, DictGet(results, selection))
    /\ pc' = "page"
    /\ UNCHANGED <<person, observations, obs_list, loc_df, pp_df, zot_df, df_columns,
                   enrichment, sidebar, all_data, relation_data, ret, data>>

\* The details page opened from the sidebar of the application.
OpenDetailsPage ==
    /\ pc \in {"start", "search"}
    /\ pc' = "page"
    /\ UNCHANGED <<person, observations, obs_list, loc_df, pp_df, zot_df, df_columns,
                   enrichment, sidebar, all_data, relation_data, ret, data, session>>

\* Person_Details.py lines 7-11: without a selection the page stops.
PageNoSelection ==
    /\ pc = "page"
    /\ "selected_person_data" \notin DOMAIN session
    /\ pc' = "no_selection"
    /\ UNCHANGED <<person, observations, obs_list, loc_df, pp_df, zot_df, df_columns,
                   enrichment, sidebar, all_data, relation_data, ret, data, session>>

\* Person_Details.py lines 13-16: the page reads the selection.
PageStart ==
    /\ pc = "page"
    /\ "selected_person_data" \in DOMAIN session
    /\ person' = session.selected_person_data
    /\ enrichment' = Get(session, "enrichment_data", [locations |-> <<>>, poolparty |-> <<>>])
    /\ all_data' = Get(session, "all_data", <<>>)
    /\ observations' = <<>>
    /\ obs_list' = <<>>
    /\ relation_data' = NoRelationData
    /\ pc' = "timeline"
    /\ UNCHANGED <<loc_df, pp_df, zot_df, df_columns, sidebar, ret, data, session>>

\* A button that stores the id of the related person only.
ViewRelatedPerson_IdOnly(i) ==
    /\ pc = "relations_done"
    /\ relation_data.error = None
    /\ i \in 1..Len(relation_data.entries)
    /\ LET rel_info == relation_data.entries[i]
       IN /\ Truthy(rel_info.other_person_id)
          /\ DictHas(all_data, rel_info.other_person_id)
          /\ session' = [session EXCEPT !.selected_person_id = rel_info.other_person_id]
    /\ pc' = "page"
    /\ UNCHANGED <<person, observations, obs_list, loc_df, pp_df, zot_df, df_columns,
                   enrichment, sidebar, all_data, relation_data, ret, data>>

\* Person_Details.py lines 743-748: View of the i-th relation.
ViewRelatedPerson(i) ==
    /\ pc = "relations_done"
    /\ relation_data.error = None
    /\ i \in 1..Len(relation_data.entries)
    /\ LET rel_info == relation_data.entries[i]
       IN /\ Truthy(rel_info.other_person_id)
          /\ DictHas(all_data, rel_info.other_person_id)
          /\ session' = [session EXCEPT
                            !.selected_person_id = rel_info.other_person_id,
                            !.selected_person_data = DictGet(all_data, rel_info.other_person_id)]
    /\ pc' = "page"
    /\ UNCHANGED <<person, observations, obs_list, loc_df, pp_df, zot_df, df_columns,
                   enrichment, sidebar, all_data, relation_data, ret, data>>

\* The phases in which the details page has been rendered as far as it
\* goes.
PageEnds == {"no_selection", "page_raised", "relations_done", "no_relations"}

\* Person_Details.py lines 9-10 and 97-98: Back to Search runs Search.py.
BackToSearch ==
    /\ pc \in PageEnds
    /\ pc' = "rerun"
    /\ UNCHANGED <<person, observations, obs_list, loc_df, pp_df, zot_df, df_columns,
                   enrichment, sidebar, all_data, relation_data, ret, data, session>>

RecLoc ==
    [location |-> LocK, original_location_description |-> Cochin,
     observation_id |-> O1, annotationDate |-> D1680]

RelationTo(other) == [relation |-> ConceptR, original_label |-> Wife, otherPerson |-> other]

\* The dataset of data.json: none; a cluster p0 with an observation, with
\* or without a location and a relation (to p1, or to a cluster that the
\* dataset does not hold); and a cluster p1 without an observation id, with
\* or without a relation to p0.
AppDatasets ==
    {<<>>} \cup
    {<<[k |-> P0, v |-> [appellations |-> <<[appellation |-> Piet, observation_id |-> O1,
                                            annotationDate |-> D1680]>>,
                         locationRelations |-> locs, relations |-> rels]]>> \o other :
        locs \in {<<>>, <<RecLoc>>},
        rels \in {<<>>, <<RelationTo(P1)>>, <<RelationTo(P2)>>},
        other \in {<<>>} \cup
                  {<<[k |-> P1, v |-> [appellations |-> <<[appellation |-> Jan]>>,
                                       relations |-> r]]>> : r \in {<<>>, <<RelationTo(P0)>>}}}

AppLocRows == [location_uri : {LocK}, label : {Kochi}, latitude : {Lat}, longitude : {Lng}]

Queries == {<<>>, Lower(Jan)}
AdvLocs == {<<>>, Lower(Kochi)}
AdvRoles == {<<>>}

InitApp ==
    /\ pc = "start"
    /\ data \in AppDatasets
    /\ session = <<>>
    /\ loc_df \in SeqUpTo(AppLocRows, 1)
    /\ pp_df = <<>>
    /\ zot_df = <<>>
    /\ df_columns = StandardColumns
    /\ person = <<>>
    /\ observations = <<>>
    /\ obs_list = <<>>
    /\ enrichment = EmptyEnrichment
    /\ sidebar = None
    /\ all_data = <<>>
    /\ relation_data = NoRelationData
    /\ ret = NoCall

NextApp ==
    \/ LoadEnrichment
    \/ RenderSidebar
    \/ \E uri \in {LocK, ConceptR} : CallGetEnrichedLabel(uri, Fb)
    \/ \E source_string \in {See \o ZotA, SrcA} : CallGetBetterSource(source_string)
    \/ \E query \in Queries : \E adv_loc \in AdvLocs : \E adv_role \in AdvRoles :
         \E p_id \in DictKeys(data) : ViewProfile(query, adv_loc, adv_role, p_id)
    \/ \E query \in Queries : \E adv_loc \in AdvLocs : \E adv_role \in AdvRoles :
         \E selection \in DictKeys(data) :
            GoToSelectedProfile(query, adv_loc, adv_role, selection)
    \/ OpenDetailsPage
    \/ PageNoSelection
    \/ PageStart
    \/ Aggregate
    \/ NoObservations
    \/ Sequence
    \/ RenderTimelineRaises
    \/ RenderCategoryTabs
    \/ ResolveRelations
    \/ NoRelations
    \/ \E i \in 1..MaxRels : ViewRelatedPerson(i)
    \/ BackToSearch
    \/ ReloadEnrichment

SpecApp == InitApp /\ [][NextApp]_vars

\* The phases in which the page shows the selected person.
ShowsPerson ==
    pc \in {"timeline", "aggregated", "no_observations", "sorted", "tabs_shown",
            "page_raised", "relations_done", "no_relations"}

\* C27: after any sequence of navigation actions, whenever a person is
\* selected the stored selected_person_id is a key of the loaded dataset
\* and the stored selected_person_data is the dataset's cluster for that
\* id; the details page shows a person only after a selection was made, and
\* it shows the selected one.
C27_SelectionIsDatasetCluster ==
    /\ ({"selected_person_id", "selected_person_data"} \cap DOMAIN session # {}) =>
          /\ {"selected_person_id", "selected_person_data"} \subseteq DOMAIN session
          /\ DictHas(data, session.selected_person_id)
          /\ session.selected_person_data = DictGet(data, session.selected_person_id)
    /\ ShowsPerson =>
          /\ "selected_person_data" \in DOMAIN session
          /\ person = session.selected_person_data

\* After a navigation the page of p1 is shown, with the relation of p1 to
\* p0 resolved.
C27_Witness ==
    /\ pc = "relations_done"
    /\ session.selected_person_id = P1
    /\ person = DictGet(data, P1)
    /\ relation_data.entries # <<>>
    /\ relation_data.entries[1].other_person_id = P0

\* A step of label resolution, citation resolution, timeline aggregation,
\* sequencing or cross-reference resolution: a call made on the search
\* page, or a step of the details page after it has read the selection.
ResolutionStep ==
    \/ pc = "search" /\ pc' = "search"
    \/ pc \in {"timeline", "aggregated", "no_observations", "sorted", "tabs_shown"}

\* C22: label resolution, citation resolution, timeline aggregation and
\* sequencing, and cross-reference resolution leave the loaded dataset
\* (every cluster and every record, as loaded, as stored by the selection
\* and as read by the page) and the three enrichment maps unchanged.
C22_ResolutionLeavesData ==
    [][ResolutionStep =>
          /\ UNCHANGED <<data, all_data, person, session>>
          /\ enrichment'.locations = enrichment.locations
          /\ enrichment'.poolparty = enrichment.poolparty
          /\ enrichment'.zotero = enrichment.zotero]_vars

\* The page of p0 was aggregated, sequenced and rendered, and its relation
\* to p1 was resolved over a filled location map.
C22_Witness ==
    /\ pc = "relations_done"
    /\ obs_list # <<>>
    /\ relation_data.entries # <<>>
    /\ relation_data.entries[1]["Related Person"] = Jan
    /\ person = DictGet(data, P0)
    /\ enrichment.locations # <<>>

===========================================================================
